---- MODULE Spec2Model ----
(***************************************************************************)
(* OCPP 1.6 charge-point simulators of ocpp-simulador-ve.                  *)
(*                                                                         *)
(*   G3   : EVBoxG3Simulator      (src/evbox_g3_mock.py)                   *)
(*   Mock : EVBoxMock             (src/mock_EVBOX.py)                      *)
(*   CP   : CP_Simulator          (src/simulador_interface.py)             *)
(*                                                                         *)
(* Each program is a set of asyncio tasks sharing the fields of one charge *)
(* point object.  A task runs without interruption between two suspension  *)
(* points (an awaited transport call, an asyncio.sleep), so an action of   *)
(* the model is the code between two suspension points.  The transport is  *)
(* an external collaborator: every call either returns a response chosen   *)
(* by the CSMS or fails; the model takes both outcomes.  A request is      *)
(* emitted when its call is made; where the code acts on the response      *)
(* (StartTransaction, StopTransaction, Authorize, MeterValues of the Mock) *)
(* the response is a step of its own.                                      *)
(*                                                                         *)
(* The variable prog names the program a behaviour runs; the variables of  *)
(* the other programs keep their initial values.                           *)
(***************************************************************************)
EXTENDS Integers, Sequences, FiniteSets, TLC

VARIABLES
    prog,       \* the program this behaviour runs: "G3", "Mock", "CP" or "RFID"
    gui,        \* the GUI: whether self.cp is set, which connect gave self.websocket
                \* and the charge point's connection, how the charge point's boot
                \* handshake ended, where async_connect_to_server and
                \* monitor_connection are, disconnect's pending status task
    g3,         \* EVBoxG3Simulator fields: tx_id, energy_wh_counter, charging, connected,
                \* heartbeat_interval
    g3flow,     \* start_session_flow tasks: pc, loop index i, and what the flow saw
    g3stop,     \* stop_session runs: the local button's task and the RemoteStop handler's
    g3hb,       \* whether _heartbeat_task is alive
    g3cfg,      \* EVBoxG3Simulator's configuration: _config and authorize_required
    mock,       \* EVBoxMock fields: transaction_id, charging, connected, meter counters,
                \* authorize_required, heartbeat_interval, meter_values_interval
    mflow,      \* start_charging_sequence tasks: pc, loop index i, and what the flow saw
    mtask,      \* the three tasks of the Mock's stop button and the RemoteStop handler
    mhb,        \* number of periodic_heartbeat tasks alive
    cp,         \* CP_Simulator fields: transaction_id, charging, connected
    cpflow,     \* start_charging_sequence tasks: pc, loop index i, total_energy
    cptask,     \* the two tasks of the CP_Simulator's stop button
    cphb,       \* periodic_heartbeat tasks of CP_Simulator: "sleep", "resp" or "dead"
    trace,      \* per session task: the requests it has handed to the transport, in
                \* order, by type and argument (its current run only)
    last,       \* the last message handed to the transport (a request, or a handler's
                \* reply) by a task that is still running, with its fields
    nStarts     \* number of session-start requests so far (bounded by MaxSessions)

g3vars == <<g3, g3flow, g3stop, g3hb>>
mockvars == <<mock, mflow, mtask, mhb>>
cpvars == <<cp, cpflow, cptask, cphb>>
\* what the session tasks of each program leave alone
notG3 == <<gui, g3cfg, mockvars, cpvars>>
notMock == <<gui, g3vars, g3cfg, cpvars>>
notCP == <<gui, g3vars, g3cfg, mockvars>>

vars == <<prog, gui, g3vars, g3cfg, mockvars, cpvars, trace, last, nStarts>>

----------------------------------------------------------------------------
(* Bounds of the model *)

\* session-start requests (button clicks and RemoteStartTransaction) per behaviour
MaxSessions == 2
\* the CSMS answers StartTransaction with a transactionId in 0..MaxTxId
MaxTxId == 2
\* periodic_heartbeat tasks alive at once on one charge point: resume_connection is
\* followed only while fewer are alive
MaxHbTasks == 2

(* Program constants *)

\* self.heartbeat_interval = 900, and the `or 900` of start
DefaultHeartbeatInterval == 900

\* self.energy_wh_counter = 11_905_680
G3InitialEnergyWh == 11905680
\* inc = 1_280
G3IncrementWh == 1280
\* for i in range(3)
G3MeterSamples == 3

----------------------------------------------------------------------------
(* Values *)

\* Optional[int]: None is the empty tuple, an integer n is <<n>>
None == <<>>
Some(n) == <<n>>
IsInt(v) == Len(v) = 1
Val(v) == v[1]

Max(a, b) == IF a >= b THEN a ELSE b

\* A Python value that is an int or a str, or an attribute that is absent
PyInt(n) == [kind |-> "int", n |-> n, s |-> <<>>]
PyStr(s) == [kind |-> "str", n |-> 0, s |-> s]
PyAbsent == [kind |-> "absent", n |-> 0, s |-> <<>>]
\* bool(v)
PyTruthy(v) == (v.kind = "int" /\ v.n # 0) \/ (v.kind = "str" /\ v.s # <<>>)

\* self.id_tag of the GUI of evbox_g3_mock.py after construction, and the idTags a
\* CSMS or the tag field may give
GuiIdTag == "DAIANE_EVB1234"
IdTags == {GuiIdTag, "CSMS_TAG"}

\* The GUI once async_connect_to_server has connected, created self.cp and returned
\* from its start(): the monitor sleeps, no connect task is running
GuiConnected ==
    [cp |-> TRUE, websocket |-> "conn", connection |-> "conn", boot |-> "accepted",
     conn |-> "idle", mon |-> "sleep", unavail |-> FALSE, id_tag |-> GuiIdTag]

GuiInit == gui = GuiConnected

\* slots of the periodic_heartbeat tasks of CP_Simulator
HbTasks == 1..MaxHbTasks

\* transaction ids the CSMS may put in a response or a RemoteStopTransaction
ServerTxIds == 0..MaxTxId
\* idTagInfo.status values of a StartTransaction / Authorize response
AuthStatuses == {"Accepted", "Invalid"}

G3Flows == {"f1", "f2"}
G3StopTasks == {"btn", "rs"}
MockFlows == {"m1"}
\* the stop button's tasks: _send_transaction_end_sample, _send_stop_transaction,
\* _send_status
MockStopTasks == {"mEnd", "mStop", "mAvail"}
\* the tasks whose requests are traced
Tasks == G3Flows \cup G3StopTasks \cup MockFlows \cup {"c1"}

NoMsg == [task |-> "", type |-> "", arg |-> "", tx |-> None, val |-> 0]
Msg(t, type, arg, tx, val) == [task |-> t, type |-> type, arg |-> arg, tx |-> tx, val |-> val]
Tag(m) == IF m.arg = "" THEN m.type ELSE m.type \o "(" \o m.arg \o ")"

\* a task hands request m to the transport
Emit(m) ==
    /\ last' = m
    /\ trace' = [trace EXCEPT ![m.task] = Append(@, Tag(m))]

\* a task that keeps no trace hands message m to the transport
Post(m) ==
    /\ last' = m
    /\ UNCHANGED trace

\* the task's coroutine has returned: its frame is dropped
Forget(t) ==
    /\ last' = IF last.task = t THEN NoMsg ELSE last
    /\ trace' = [trace EXCEPT ![t] = <<>>]

----------------------------------------------------------------------------
(* EVBoxG3Simulator (src/evbox_g3_mock.py) *)

G3IdleFlow ==
    [pc |-> "idle", i |-> 0, res |-> "none", tx |-> 0, meterStart |-> 0, id_tag |-> ""]

G3IdleStop == [pc |-> "idle", arg |-> None]

\* EVBoxG3Simulator.__init__
G3Fields ==
    [tx_id |-> None, energy_wh_counter |-> G3InitialEnergyWh,
     charging |-> FALSE, connected |-> TRUE,
     heartbeat_interval |-> DefaultHeartbeatInterval]

G3Init ==
    /\ g3 = G3Fields
    /\ g3flow = [f \in G3Flows |-> G3IdleFlow]
    /\ g3stop = [t \in G3StopTasks |-> G3IdleStop]
    /\ g3hb = TRUE

\* tx_id=self.tx_id or 0
OrZero(v) == IF IsInt(v) /\ Val(v) # 0 THEN Val(v) ELSE 0

\* StatusNotification request of send_status
G3StatusMsg(t, status) == Msg(t, "StatusNotification", status, None, 0)

\* DataTransfer(evbStatusNotification) request of send_evb_datatransfer
G3DataTransferMsg(t, status_str) ==
    Msg(t, "DataTransfer", status_str, Some(OrZero(g3.tx_id)), g3.energy_wh_counter)

\* StopTransaction request of send_stop_transaction
G3StopMsg(t, reason) ==
    Msg(t, "StopTransaction", reason, g3.tx_id, g3.energy_wh_counter)

\* accepted = (str(status_val).lower() == 'accepted' and isinstance(tx_id, int) and tx_id > 0)
G3Accepted(status, tx) == status = "Accepted" /\ tx > 0

\* tx_ok = isinstance(self.tx_id, int) and self.tx_id > 0
G3TxOk(tx_id) == IsInt(tx_id) /\ Val(tx_id) > 0

\* the head of the metering loop and, when it is left, the `if self.charging` that follows
G3LoopNext(i, charging, connected) ==
    IF i < G3MeterSamples /\ charging /\ connected THEN "mSleep"
    ELSE IF charging THEN "stopTx" ELSE "done"

\* the steps of start_session_flow that only send a notification:
\* pc -> <<request type, status, next pc>>
G3FlowSteps ==
    [prep     |-> <<"StatusNotification", "Preparing", "prepDT">>,
     prepDT   |-> <<"DataTransfer", "Preparing", "startTx">>,
     rejAvail |-> <<"StatusNotification", "Available", "rejDT">>,
     susp     |-> <<"StatusNotification", "SuspendedEVSE", "suspDT">>,
     suspDT   |-> <<"DataTransfer", "SuspendedEVSE", "chg">>,
     chg      |-> <<"StatusNotification", "Charging", "chgDT">>,
     finSt    |-> <<"StatusNotification", "Finishing", "finDT">>,
     finDT    |-> <<"DataTransfer", "Finishing", "avSt">>,
     avSt     |-> <<"StatusNotification", "Available", "avDT">>]

\* the steps of stop_session after its StopTransaction: pc -> <<type, status, next pc>>
G3StopSteps ==
    [avSt |-> <<"StatusNotification", "Available", "avDT">>,
     avDT |-> <<"DataTransfer", "Available", "done">>]

G3NotifyMsg(t, step) ==
    IF step[1] = "StatusNotification" THEN G3StatusMsg(t, step[2])
    ELSE G3DataTransferMsg(t, step[2])

\* the slot a new start_session_flow task takes (the slots are interchangeable)
SlotRank == [f1 |-> 1, f2 |-> 2]
G3FreeSlot(f) ==
    /\ g3flow[f].pc = "idle"
    /\ \A e \in G3Flows : g3flow[e].pc = "idle" => SlotRank[f] <= SlotRank[e]

\* a new task running start_session_flow is created in slot f
G3SpawnFlow(f, id_tag) ==
    /\ G3FreeSlot(f)
    /\ nStarts < MaxSessions
    /\ nStarts' = nStarts + 1
    /\ g3flow' = [g3flow EXCEPT ![f].pc = "start", ![f].id_tag = id_tag]

\* id_tag = self.rfid_input.text().strip() or "EVB_TAG", for a text without blanks
G3TypedIdTag(text) == IF text = "" THEN "EVB_TAG" ELSE text

\* EVChargerGUI.start_charging: the start button, with the text of the tag field
G3_start_charging(f, text) ==
    /\ prog = "G3"
    /\ gui.cp /\ ~g3.charging
    /\ gui' = [gui EXCEPT !.id_tag = G3TypedIdTag(text)]
    /\ G3SpawnFlow(f, G3TypedIdTag(text))
    /\ UNCHANGED <<prog, g3cfg, mockvars, cpvars, g3, g3stop, g3hb, last, trace>>

\* on_remote_start_transaction; inbound calls are handled one at a time
G3_on_remote_start_transaction(f, id_tag) ==
    /\ prog = "G3"
    /\ g3stop["rs"].pc = "idle"
    /\ G3SpawnFlow(f, id_tag)
    /\ UNCHANGED <<prog, notG3, g3, g3stop, g3hb, last, trace>>

\* the guard of start_session_flow: whether the flow goes on, given self.charging
G3FlowGuard(charging) == ~charging

\* start_session_flow: `if self.charging: return`
G3_flow_guard(f) ==
    /\ prog = "G3"
    /\ g3flow[f].pc = "start"
    /\ g3flow' = [g3flow EXCEPT ![f].pc = IF G3FlowGuard(g3.charging) THEN "prep" ELSE "done"]
    /\ UNCHANGED <<prog, notG3, g3, g3stop, g3hb, last, trace, nStarts>>

\* start_session_flow: a send_status or send_evb_datatransfer call
G3_flow_notify(f) ==
    /\ prog = "G3"
    /\ g3flow[f].pc \in DOMAIN G3FlowSteps
    /\ LET step == G3FlowSteps[g3flow[f].pc] IN
         /\ Emit(G3NotifyMsg(f, step))
         /\ g3flow' = [g3flow EXCEPT ![f].pc = step[3]]
    /\ UNCHANGED <<prog, notG3, g3, g3stop, g3hb, nStarts>>

\* the id_tag of the StartTransaction request of flow f: the argument of the flow
G3StartIdTag(f) == g3flow[f].id_tag

\* the id_tag of a StopTransaction request: id_tag=self.gui.id_tag
G3StopIdTag == gui.id_tag

\* send_start_transaction: the request
G3_flow_startTx(f) ==
    /\ prog = "G3"
    /\ g3flow[f].pc = "startTx"
    /\ Emit(Msg(f, "StartTransaction", "", None, g3.energy_wh_counter))
    /\ g3flow' = [g3flow EXCEPT ![f].pc = "startResp",
                                ![f].meterStart = g3.energy_wh_counter]
    /\ UNCHANGED <<prog, notG3, g3, g3stop, g3hb, nStarts>>

\* outcomes of a StartTransaction call: it raised, or the CSMS answered
\* idTagInfo.status and transactionId
CallFailed == [ok |-> FALSE, status |-> "", tx |-> 0]
StartOutcomes ==
    {CallFailed} \cup {[ok |-> TRUE, status |-> s, tx |-> t] : s \in AuthStatuses, t \in ServerTxIds}

\* what the flow saw: the StartTransaction outcome as the spec classifies it
StartResult(outcome) ==
    IF ~outcome.ok THEN "failed"
    ELSE IF outcome.status = "Accepted" /\ outcome.tx > 0 THEN "accepted" ELSE "rejected"

\* what send_start_transaction leaves in self.tx_id
G3StartOutcomeTxId(outcome, old) ==
    IF ~outcome.ok THEN old
    ELSE IF G3Accepted(outcome.status, outcome.tx) THEN Some(outcome.tx) ELSE None

\* send_start_transaction: the response, then the tx_ok test of start_session_flow
G3_flow_startResp(f) ==
    /\ prog = "G3"
    /\ g3flow[f].pc = "startResp"
    /\ \E outcome \in StartOutcomes :
         LET tx_id == G3StartOutcomeTxId(outcome, g3.tx_id) IN
             /\ g3' = [g3 EXCEPT !.tx_id = tx_id]
             /\ g3flow' = [g3flow EXCEPT
                    ![f].pc  = IF G3TxOk(tx_id) THEN "susp" ELSE "rejAvail",
                    ![f].res = StartResult(outcome),
                    ![f].tx  = IF StartResult(outcome) = "accepted" THEN outcome.tx ELSE 0]
    /\ UNCHANGED <<prog, notG3, g3stop, g3hb, last, trace, nStarts>>

\* rejected start: DataTransfer(Available), then self.charging = False; return
G3_flow_rejDT(f) ==
    /\ prog = "G3"
    /\ g3flow[f].pc = "rejDT"
    /\ Emit(G3DataTransferMsg(f, "Available"))
    /\ g3' = [g3 EXCEPT !.charging = FALSE]
    /\ g3flow' = [g3flow EXCEPT ![f].pc = "done"]
    /\ UNCHANGED <<prog, notG3, g3stop, g3hb, nStarts>>

\* DataTransfer(Charging), then self.charging = True and the first loop test
G3_flow_chgDT(f) ==
    /\ prog = "G3"
    /\ g3flow[f].pc = "chgDT"
    /\ Emit(G3DataTransferMsg(f, "Charging"))
    /\ g3' = [g3 EXCEPT !.charging = TRUE]
    /\ g3flow' = [g3flow EXCEPT ![f].pc = G3LoopNext(0, TRUE, g3.connected),
                                ![f].i = 0]
    /\ UNCHANGED <<prog, notG3, g3stop, g3hb, nStarts>>

\* self.energy_wh_counter += max(1, int(increment_wh))
G3MeterIncrement(counter, increment_wh) == counter + Max(1, increment_wh)

\* the MeterValues request of send_meter_values, built after the increment
G3MeterMsg(t, tx_id, counter) == Msg(t, "MeterValues", "", tx_id, counter)

\* the wake-up from asyncio.sleep(10) and send_meter_values
G3_flow_meter(f) ==
    /\ prog = "G3"
    /\ g3flow[f].pc = "mSleep"
    /\ LET counter == G3MeterIncrement(g3.energy_wh_counter, G3IncrementWh) IN
         /\ g3' = [g3 EXCEPT !.energy_wh_counter = counter]
         /\ Emit(G3MeterMsg(f, g3.tx_id, counter))
    /\ g3flow' = [g3flow EXCEPT ![f].pc = "mvDT"]
    /\ UNCHANGED <<prog, notG3, g3stop, g3hb, nStarts>>

\* send_meter_values has returned, its call having ended well or not (it logs the
\* exception and returns nothing): the DataTransfer(Charging) that ends a loop round,
\* then the next loop test
G3_flow_mvDT(f, ok) ==
    /\ prog = "G3"
    /\ g3flow[f].pc = "mvDT"
    /\ Emit(G3DataTransferMsg(f, "Charging"))
    /\ g3flow' = [g3flow EXCEPT
           ![f].pc = G3LoopNext(g3flow[f].i + 1, g3.charging, g3.connected),
           ![f].i = g3flow[f].i + 1]
    /\ UNCHANGED <<prog, notG3, g3, g3stop, g3hb, nStarts>>

\* finalisation: send_stop_transaction(reason="Local"), the request
G3_flow_stopTx(f) ==
    /\ prog = "G3"
    /\ g3flow[f].pc = "stopTx"
    /\ Emit(G3StopMsg(f, "Local"))
    /\ g3flow' = [g3flow EXCEPT ![f].pc = "stopResp"]
    /\ UNCHANGED <<prog, notG3, g3, g3stop, g3hb, nStarts>>

\* what send_stop_transaction leaves in self.tx_id: cleared unless the call raised
G3StopOutcomeTxId(ok, old) == IF ok THEN None ELSE old

\* finalisation: the StopTransaction response
G3_flow_stopResp(f) ==
    /\ prog = "G3"
    /\ g3flow[f].pc = "stopResp"
    /\ \E ok \in BOOLEAN : g3' = [g3 EXCEPT !.tx_id = G3StopOutcomeTxId(ok, g3.tx_id)]
    /\ g3flow' = [g3flow EXCEPT ![f].pc = "finSt"]
    /\ UNCHANGED <<prog, notG3, g3stop, g3hb, last, trace, nStarts>>

\* finalisation: DataTransfer(Available), then self.charging = False
G3_flow_avDT(f) ==
    /\ prog = "G3"
    /\ g3flow[f].pc = "avDT"
    /\ Emit(G3DataTransferMsg(f, "Available"))
    /\ g3' = [g3 EXCEPT !.charging = FALSE]
    /\ g3flow' = [g3flow EXCEPT ![f].pc = "done"]
    /\ UNCHANGED <<prog, notG3, g3stop, g3hb, nStarts>>

\* the start_session_flow coroutine returns and its task ends
G3_flow_return(f) ==
    /\ prog = "G3"
    /\ g3flow[f].pc = "done"
    /\ g3flow' = [g3flow EXCEPT ![f] = G3IdleFlow]
    /\ Forget(f)
    /\ UNCHANGED <<prog, notG3, g3, g3stop, g3hb, nStarts>>

\* EVChargerGUI.stop_charging: the stop button creates a stop_session("Local") task
G3_stop_charging ==
    /\ prog = "G3"
    /\ gui.cp /\ g3.charging
    /\ g3stop["btn"].pc = "idle"
    /\ g3stop' = [g3stop EXCEPT !["btn"].pc = "start"]
    /\ UNCHANGED <<prog, notG3, g3, g3flow, g3hb, trace, last, nStarts>>

G3StopReason(t) == IF t = "rs" THEN "Remote" ELSE "Local"

\* the guard of stop_session: whether it goes on, given self.charging
G3StopGuard(charging) == charging

\* stop_session up to its first suspension, run by t: the guard, self.charging = False
\* and the StopTransaction request; `next` is where t is left
G3StopSessionBegin(t, next) ==
    IF ~G3StopGuard(g3.charging)
    THEN /\ next = "done"
         /\ UNCHANGED <<g3, trace, last>>
    ELSE /\ next = "stopResp"
         /\ g3' = [g3 EXCEPT !.charging = FALSE]
         /\ Emit(G3StopMsg(t, G3StopReason(t)))

\* the stop button's task starts running stop_session
G3_stop_session(t) ==
    /\ prog = "G3"
    /\ t = "btn"
    /\ g3stop[t].pc = "start"
    /\ \E next \in {"done", "stopResp"} :
         /\ G3StopSessionBegin(t, next)
         /\ g3stop' = [g3stop EXCEPT ![t].pc = next]
    /\ UNCHANGED <<prog, notG3, g3flow, g3hb, nStarts>>

\* variant: any RemoteStopTransaction matches a stored transaction
G3RemoteStopMatchesAny(tx_id, transaction_id) == IsInt(tx_id)

\* the test of on_remote_stop_transaction: `self.tx_id == transaction_id`
G3RemoteStopMatches(tx_id, transaction_id) == tx_id = Some(transaction_id)

\* on_remote_stop_transaction up to its first suspension.  A mismatch returns
\* Rejected at once (pc "rejected"); a match runs stop_session and returns Accepted
\* when stop_session has returned (pc "done").  Inbound calls are handled one at a
\* time: the next one is taken when this handler has returned.
G3_on_remote_stop_transaction(transaction_id) ==
    /\ prog = "G3"
    /\ g3stop["rs"].pc = "idle"
    /\ IF G3RemoteStopMatches(g3.tx_id, transaction_id)
       THEN \E next \in {"done", "stopResp"} :
              /\ G3StopSessionBegin("rs", next)
              /\ g3stop' = [g3stop EXCEPT !["rs"].pc = next]
       ELSE /\ g3stop' = [g3stop EXCEPT !["rs"].pc = "rejected"]
            /\ UNCHANGED <<g3, trace, last>>
    /\ UNCHANGED <<prog, notG3, g3flow, g3hb, nStarts>>

\* stop_session: the StopTransaction response
G3_stop_stopResp(t) ==
    /\ prog = "G3"
    /\ g3stop[t].pc = "stopResp"
    /\ \E ok \in BOOLEAN : g3' = [g3 EXCEPT !.tx_id = G3StopOutcomeTxId(ok, g3.tx_id)]
    /\ g3stop' = [g3stop EXCEPT ![t].pc = "avSt"]
    /\ UNCHANGED <<prog, notG3, g3flow, g3hb, trace, last, nStarts>>

\* stop_session: StatusNotification(Available), then DataTransfer(Available)
G3_stop_notify(t) ==
    /\ prog = "G3"
    /\ g3stop[t].pc \in DOMAIN G3StopSteps
    /\ LET step == G3StopSteps[g3stop[t].pc] IN
         /\ Emit(G3NotifyMsg(t, step))
         /\ g3stop' = [g3stop EXCEPT ![t].pc = step[3]]
    /\ UNCHANGED <<prog, notG3, g3, g3flow, g3hb, nStarts>>

\* the stop_session task ends; the RemoteStop handler's reply goes to the CSMS
G3_stop_return(t) ==
    /\ prog = "G3"
    /\ g3stop[t].pc \in {"done", "rejected"}
    /\ g3stop' = [g3stop EXCEPT ![t] = G3IdleStop]
    /\ Forget(t)
    /\ UNCHANGED <<prog, notG3, g3, g3flow, g3hb, nStarts>>

\* the reply of the RemoteStopTransaction handler, once it has returned
G3RemoteStopReply ==
    IF g3stop["rs"].pc = "done" THEN "Accepted"
    ELSE IF g3stop["rs"].pc = "rejected" THEN "Rejected" ELSE "none"

\* _heartbeat_task goes on after a round when the call returned (an exception breaks
\* out of the loop) and `while self.connected` holds
G3HeartbeatGoesOnAnyway(ok, connected) == connected
G3HeartbeatGoesOn(ok, connected) == ok /\ connected

\* _heartbeat_task: one round of the loop: the sleep ends and Heartbeat is called;
\* a failure clears self.connected and ends the task
G3_heartbeat(ok) ==
    /\ prog = "G3"
    /\ g3hb
    /\ g3' = [g3 EXCEPT !.connected = @ /\ ok]
    /\ g3hb' = G3HeartbeatGoesOn(ok, g3.connected)
    /\ UNCHANGED <<prog, notG3, g3flow, g3stop, last, trace, nStarts>>

----------------------------------------------------------------------------
(* EVBoxMock (src/mock_EVBOX.py) *)

\* for i in range(1, 11)
MockMeterSamples == 10
\* power_w = i * 150
MockPowerStepW == 150
\* asyncio.sleep(3): the seconds of one metering round
MockRoundSeconds == 3

MockIdleFlow == [pc |-> "idle", i |-> 0, auth |-> "none", res |-> "none", tx |-> 0]

\* EVBoxMock.__init__
MockFields ==
    [transaction_id |-> None, charging |-> FALSE, connected |-> TRUE,
     meter_wh_counter |-> 0, meter_start_wh |-> 0,
     authorize_required |-> TRUE,
     heartbeat_interval |-> PyInt(DefaultHeartbeatInterval), meter_values_interval |-> 30]

MockInit ==
    /\ mock = MockFields
    /\ mflow = [f \in MockFlows |-> MockIdleFlow]
    /\ mtask = [t \in MockStopTasks |-> "idle"]
    /\ mhb = 1

\* StatusNotification request of _send_status
MockStatusMsg(t, status) == Msg(t, "StatusNotification", status, None, 0)

\* Python's round(n / d) for n >= 0, d > 0: to the nearest integer, ties to even
RoundHalfEven(n, d) ==
    LET q == n \div d
        r == n % d
    IN  IF 2 * r < d THEN q
        ELSE IF 2 * r > d THEN q + 1
        ELSE q + (q % 2)

\* step_wh = max(1, int(round(power_w * 3 / 3600))) with power_w = i * 150
MockStepWh(i) == Max(1, RoundHalfEven(i * MockPowerStepW * MockRoundSeconds, 3600))

\* a new task running start_charging_sequence is created in slot f
MockSpawnFlow(f) ==
    /\ mflow[f].pc = "idle"
    /\ nStarts < MaxSessions
    /\ nStarts' = nStarts + 1
    /\ mflow' = [mflow EXCEPT ![f].pc = "start"]

\* EVChargerGUI.start_charging: the start button
Mock_start_charging(f) ==
    /\ prog = "Mock"
    /\ gui.cp /\ ~mock.charging
    /\ MockSpawnFlow(f)
    /\ UNCHANGED <<prog, notMock, mock, mtask, mhb, last, trace>>

\* on_remote_start_transaction: creates the flow task and replies Accepted
Mock_on_remote_start_transaction(f) ==
    /\ prog = "Mock"
    /\ MockSpawnFlow(f)
    /\ UNCHANGED <<prog, notMock, mock, mtask, mhb, last, trace>>

\* the guard of start_charging_sequence: whether the flow goes on, given self.charging
MockFlowGuard(charging) == ~charging

\* `self.charging = True`, StatusNotification(Preparing): the flow is authorised
MockBeginPreparing(f, auth) ==
    /\ mock' = [mock EXCEPT !.charging = TRUE]
    /\ Emit(MockStatusMsg(f, "Preparing"))
    /\ mflow' = [mflow EXCEPT ![f].pc = "prep", ![f].auth = auth]

\* start_charging_sequence up to its first suspension: the guard, then the AutoStart
\* branch (no Authorize, Preparing at once) or the Authorize request
Mock_flow_begin(f) ==
    /\ prog = "Mock"
    /\ mflow[f].pc = "start"
    /\ IF ~MockFlowGuard(mock.charging)
       THEN /\ mflow' = [mflow EXCEPT ![f].pc = "done"]
            /\ UNCHANGED <<mock, last, trace>>
       ELSE IF ~mock.authorize_required
       THEN MockBeginPreparing(f, "autostart")
       ELSE /\ Emit(Msg(f, "Authorize", "", None, 0))
            /\ mflow' = [mflow EXCEPT ![f].pc = "authResp"]
            /\ UNCHANGED mock
    /\ UNCHANGED <<prog, notMock, mtask, mhb, nStarts>>

\* outcomes of an Authorize call: it raised, or the CSMS answered idTagInfo.status
AuthOutcomes == {[ok |-> FALSE, status |-> ""]} \cup {[ok |-> TRUE, status |-> s] : s \in AuthStatuses}

\* what the flow saw: the Authorize outcome
AuthResult(outcome) ==
    IF ~outcome.ok THEN "failed"
    ELSE IF outcome.status = "Accepted" THEN "accepted" ELSE "rejected"

\* variant: the flow goes on whenever the Authorize call returned
MockAuthorizedAny(outcome) == outcome.ok

\* whether the flow goes on after Authorize: the call returned and
\* auth_status == AuthorizationStatus.accepted
MockAuthorized(outcome) == outcome.ok /\ outcome.status = "Accepted"

\* the Authorize response: return unless accepted, else Preparing
Mock_flow_authResp(f) ==
    /\ prog = "Mock"
    /\ mflow[f].pc = "authResp"
    /\ \E outcome \in AuthOutcomes :
         IF MockAuthorized(outcome)
         THEN MockBeginPreparing(f, AuthResult(outcome))
         ELSE /\ mflow' = [mflow EXCEPT ![f].pc = "done", ![f].auth = AuthResult(outcome)]
              /\ UNCHANGED <<mock, last, trace>>
    /\ UNCHANGED <<prog, notMock, mtask, mhb, nStarts>>

\* after asyncio.sleep(1.5): _send_start_transaction, the request
Mock_flow_startTx(f) ==
    /\ prog = "Mock"
    /\ mflow[f].pc = "prep"
    /\ mock' = [mock EXCEPT !.meter_start_wh = mock.meter_wh_counter]
    /\ Emit(Msg(f, "StartTransaction", "", None, mock.meter_wh_counter))
    /\ mflow' = [mflow EXCEPT ![f].pc = "startResp"]
    /\ UNCHANGED <<prog, notMock, mtask, mhb, nStarts>>

\* what _send_start_transaction leaves in the charge point: the transaction id of
\* any response is stored; a failed call clears charging
MockStartOutcome(outcome, m) ==
    IF outcome.ok THEN [m EXCEPT !.transaction_id = Some(outcome.tx)]
    ELSE [m EXCEPT !.charging = FALSE]

\* the StartTransaction response, then StatusNotification(Charging)
Mock_flow_startResp(f) ==
    /\ prog = "Mock"
    /\ mflow[f].pc = "startResp"
    /\ \E outcome \in StartOutcomes :
         /\ mock' = MockStartOutcome(outcome, mock)
         /\ mflow' = [mflow EXCEPT
                ![f].pc = "chg",
                ![f].res = StartResult(outcome),
                ![f].tx = IF StartResult(outcome) = "accepted" THEN outcome.tx ELSE 0]
    /\ Emit(MockStatusMsg(f, "Charging"))
    /\ UNCHANGED <<prog, notMock, mtask, mhb, nStarts>>

\* the MeterValues request of _send_transaction_end_sample
MockEndSampleMsg(t, m) == Msg(t, "MeterValues", "Transaction.End", m.transaction_id, m.meter_wh_counter)

\* StopTransaction request of _send_stop_transaction
MockStopMsg(t, reason, m) == Msg(t, "StopTransaction", reason, m.transaction_id, m.meter_wh_counter)

\* after _simulate_meter_values, the charge point being m: `if self.charging` sends the
\* Transaction.End sample; otherwise `self.charging = False` and the flow returns
MockAfterLoop(f, m) ==
    IF m.charging
    THEN /\ Emit(MockEndSampleMsg(f, m))
         /\ mflow' = [mflow EXCEPT ![f].pc = "endResp"]
         /\ mock' = m
    ELSE /\ mflow' = [mflow EXCEPT ![f].pc = "done"]
         /\ mock' = [m EXCEPT !.charging = FALSE]
         /\ UNCHANGED <<last, trace>>

\* whether round i of _simulate_meter_values is entered
MockLoopGoesOn(i, charging, connected) == i <= MockMeterSamples /\ charging /\ connected

\* the head of round i of _simulate_meter_values, the charge point being m
MockLoopHead(f, i, m) ==
    IF MockLoopGoesOn(i, m.charging, m.connected)
    THEN /\ mflow' = [mflow EXCEPT ![f].pc = "mSleep", ![f].i = i]
         /\ mock' = m
         /\ UNCHANGED <<last, trace>>
    ELSE MockAfterLoop(f, m)

\* StatusNotification(Charging) has returned: _simulate_meter_values starts
Mock_flow_charging(f) ==
    /\ prog = "Mock"
    /\ mflow[f].pc = "chg"
    /\ MockLoopHead(f, 1, mock)
    /\ UNCHANGED <<prog, notMock, mtask, mhb, nStarts>>

\* the wake-up from asyncio.sleep(3): the counter advances and MeterValues is sent
Mock_flow_meter(f) ==
    /\ prog = "Mock"
    /\ mflow[f].pc = "mSleep"
    /\ LET counter == mock.meter_wh_counter + MockStepWh(mflow[f].i) IN
         /\ mock' = [mock EXCEPT !.meter_wh_counter = counter]
         /\ Emit(Msg(f, "MeterValues", "", mock.transaction_id, counter))
    /\ mflow' = [mflow EXCEPT ![f].pc = "mvResp"]
    /\ UNCHANGED <<prog, notMock, mtask, mhb, nStarts>>

\* the MeterValues response: the next round, or `break` when the call raised
Mock_flow_mvResp(f, ok) ==
    /\ prog = "Mock"
    /\ mflow[f].pc = "mvResp"
    /\ IF ok THEN MockLoopHead(f, mflow[f].i + 1, mock)
       ELSE MockAfterLoop(f, mock)
    /\ UNCHANGED <<prog, notMock, mtask, mhb, nStarts>>

\* the Transaction.End sample has returned: _send_stop_transaction(reason="Local")
Mock_flow_stopTx(f) ==
    /\ prog = "Mock"
    /\ mflow[f].pc = "endResp"
    /\ Emit(MockStopMsg(f, "Local", mock))
    /\ mflow' = [mflow EXCEPT ![f].pc = "stopResp"]
    /\ UNCHANGED <<prog, notMock, mock, mtask, mhb, nStarts>>

\* what _send_stop_transaction leaves in self.transaction_id
MockStopOutcomeTxId(ok, old) == IF ok THEN None ELSE old

\* the StopTransaction response, then StatusNotification(Available)
Mock_flow_stopResp(f) ==
    /\ prog = "Mock"
    /\ mflow[f].pc = "stopResp"
    /\ \E ok \in BOOLEAN :
         mock' = [mock EXCEPT !.transaction_id = MockStopOutcomeTxId(ok, mock.transaction_id)]
    /\ Emit(MockStatusMsg(f, "Available"))
    /\ mflow' = [mflow EXCEPT ![f].pc = "avail"]
    /\ UNCHANGED <<prog, notMock, mtask, mhb, nStarts>>

\* StatusNotification(Available) has returned: `self.charging = False`
Mock_flow_end(f) ==
    /\ prog = "Mock"
    /\ mflow[f].pc = "avail"
    /\ mock' = [mock EXCEPT !.charging = FALSE]
    /\ mflow' = [mflow EXCEPT ![f].pc = "done"]
    /\ UNCHANGED <<prog, notMock, mtask, mhb, last, trace, nStarts>>

\* the start_charging_sequence coroutine returns and its task ends
Mock_flow_return(f) ==
    /\ prog = "Mock"
    /\ mflow[f].pc = "done"
    /\ mflow' = [mflow EXCEPT ![f] = MockIdleFlow]
    /\ Forget(f)
    /\ UNCHANGED <<prog, notMock, mock, mtask, mhb, nStarts>>

\* EVChargerGUI.stop_charging: clears charging and creates three tasks
Mock_stop_charging ==
    /\ prog = "Mock"
    /\ gui.cp /\ mock.charging
    /\ \A t \in MockStopTasks : mtask[t] = "idle"
    /\ mock' = [mock EXCEPT !.charging = FALSE]
    /\ mtask' = [t \in MockStopTasks |-> "start"]
    /\ UNCHANGED <<prog, notMock, mflow, mhb, last, trace, nStarts>>

\* the request each of the stop button's tasks sends
MockStopTaskMsg(t) ==
    IF t = "mEnd" THEN MockEndSampleMsg(t, mock)
    ELSE IF t = "mStop" THEN MockStopMsg(t, "Local", mock)
    ELSE MockStatusMsg(t, "Available")

\* the order in which the stop button creates its tasks; the event loop starts tasks
\* in the order of their creation
MockStopRank == [mEnd |-> 1, mStop |-> 2, mAvail |-> 3]

\* one of the stop button's tasks runs up to its call; nothing follows the call in
\* _send_transaction_end_sample and _send_status
Mock_stop_task(t) ==
    /\ prog = "Mock"
    /\ mtask[t] = "start"
    /\ \A e \in MockStopTasks : MockStopRank[e] < MockStopRank[t] => mtask[e] # "start"
    /\ Post(MockStopTaskMsg(t))
    /\ mtask' = [mtask EXCEPT ![t] = IF t = "mStop" THEN "stopResp" ELSE "idle"]
    /\ UNCHANGED <<prog, notMock, mock, mflow, mhb, nStarts>>

\* the StopTransaction response of the stop button's task
Mock_stop_stopResp ==
    /\ prog = "Mock"
    /\ mtask["mStop"] = "stopResp"
    /\ \E ok \in BOOLEAN :
         mock' = [mock EXCEPT !.transaction_id = MockStopOutcomeTxId(ok, mock.transaction_id)]
    /\ mtask' = [mtask EXCEPT !["mStop"] = "idle"]
    /\ UNCHANGED <<prog, notMock, mflow, mhb, last, trace, nStarts>>

\* the test of on_remote_stop_transaction
MockRemoteStopMatches(charging, tx_id, transaction_id) ==
    charging /\ tx_id = Some(transaction_id)

\* the status on_remote_stop_transaction returns
MockRemoteStopStatus(charging, tx_id, transaction_id) ==
    IF MockRemoteStopMatches(charging, tx_id, transaction_id) THEN "Accepted" ELSE "Rejected"

\* on_remote_stop_transaction: a match clears charging; nothing is sent
Mock_on_remote_stop_transaction(transaction_id) ==
    /\ prog = "Mock"
    /\ mock' = IF MockRemoteStopMatches(mock.charging, mock.transaction_id, transaction_id)
               THEN [mock EXCEPT !.charging = FALSE] ELSE mock
    /\ UNCHANGED <<prog, notMock, mflow, mtask, mhb, last, trace, nStarts>>

\* periodic_heartbeat: one round of the loop of one of the tasks: the sleep ends,
\* Heartbeat is called when still connected, a failure clears self.connected; then
\* the `while self.connected`
Mock_heartbeat(ok) ==
    /\ prog = "Mock"
    /\ mhb > 0
    /\ LET connected == mock.connected /\ ok IN
           /\ mock' = [mock EXCEPT !.connected = connected]
           /\ mhb' = IF connected THEN mhb ELSE mhb - 1
    /\ UNCHANGED <<prog, notMock, mflow, mtask, last, trace, nStarts>>

----------------------------------------------------------------------------
(* CP_Simulator (src/simulador_interface.py, src/simulador_rfid.py) *)

\* The two files define the same class but for the start of the session flow
\* (simulador_rfid.py calls Authorize first), the meter_stop of StopTransaction,
\* and the reconnection support of simulador_rfid.py; prog "CP" runs
\* simulador_interface.py and prog "RFID" runs simulador_rfid.py.
CPProgs == {"CP", "RFID"}

\* for i in range(1, 11)
CPMeterSamples == 10
\* energy = i * 150
CPPowerStepW == 150
\* meter_stop=1500 (simulador_interface.py)
CPMeterStop == 1500
\* meter_stop=0 (simulador_rfid.py)
RfidMeterStop == 0

CPFlows == {"c1"}
\* the stop button's tasks: send_stop_transaction, send_status_notification
CPStopTasks == {"cStop", "cAvail"}

CPIdleFlow ==
    [pc |-> "idle", i |-> 0, total_energy |-> 0, auth |-> "none", res |-> "none", tx |-> 0]

CPInit ==
    /\ cp = [transaction_id |-> None, charging |-> FALSE, connected |-> TRUE]
    /\ cpflow = [f \in CPFlows |-> CPIdleFlow]
    /\ cptask = [t \in CPStopTasks |-> "idle"]
    /\ cphb = [h \in HbTasks |-> IF h = 1 THEN "sleep" ELSE "dead"]

\* how a call ends: a response, websockets' ConnectionClosed, or another exception
CallEnds == {"ok", "closed", "error"}

\* `except websockets.exceptions.ConnectionClosed: self.connected = False`
CPAfterCall(end, c) == IF end = "closed" THEN [c EXCEPT !.connected = FALSE] ELSE c

\* StatusNotification request of send_status_notification
CPStatusMsg(t, status) == Msg(t, "StatusNotification", status, None, 0)

\* StopTransaction request of send_stop_transaction
CPStopMsg(t, reason, c) ==
    Msg(t, "StopTransaction", reason, c.transaction_id,
        IF prog = "RFID" THEN RfidMeterStop ELSE CPMeterStop)

\* a new task running start_charging_sequence is created in slot f
CPSpawnFlow(f) ==
    /\ cpflow[f].pc = "idle"
    /\ nStarts < MaxSessions
    /\ nStarts' = nStarts + 1
    /\ cpflow' = [cpflow EXCEPT ![f].pc = "start"]

\* EVChargerGUI.start_charging: the start button
CP_start_charging(f) ==
    /\ prog \in CPProgs
    /\ gui.cp /\ ~cp.charging
    /\ CPSpawnFlow(f)
    /\ UNCHANGED <<prog, notCP, cp, cptask, cphb, last, trace>>

\* on_remote_start_transaction: creates the flow task and replies Accepted
CP_on_remote_start_transaction(f) ==
    /\ prog \in CPProgs
    /\ CPSpawnFlow(f)
    /\ UNCHANGED <<prog, notCP, cp, cptask, cphb, last, trace>>

\* the guard of start_charging_sequence: whether the flow goes on, given self.charging
CPFlowGuard(charging) == ~charging

\* start_charging_sequence up to its first suspension: the guard,
\* `self.charging = True`, StatusNotification(Preparing)
CP_flow_begin(f) ==
    /\ prog = "CP"
    /\ cpflow[f].pc = "start"
    /\ IF ~CPFlowGuard(cp.charging)
       THEN /\ cpflow' = [cpflow EXCEPT ![f].pc = "done"]
            /\ UNCHANGED <<cp, last, trace>>
       ELSE /\ cp' = [cp EXCEPT !.charging = TRUE]
            /\ Emit(CPStatusMsg(f, "Preparing"))
            /\ cpflow' = [cpflow EXCEPT ![f].pc = "prepResp"]
    /\ UNCHANGED <<prog, notCP, cptask, cphb, nStarts>>

\* simulador_rfid.py, start_charging_sequence up to its first suspension: the
\* guard, then the Authorize request
Rfid_flow_begin(f) ==
    /\ prog = "RFID"
    /\ cpflow[f].pc = "start"
    /\ IF ~CPFlowGuard(cp.charging)
       THEN /\ cpflow' = [cpflow EXCEPT ![f].pc = "done"]
            /\ UNCHANGED <<last, trace>>
       ELSE /\ Emit(Msg(f, "Authorize", "", None, 0))
            /\ cpflow' = [cpflow EXCEPT ![f].pc = "authResp"]
    /\ UNCHANGED <<prog, notCP, cp, cptask, cphb, nStarts>>

\* where the flow of simulador_rfid.py goes after Authorize.  A failed call returns.
\* A status other than accepted reaches `self.update_charging_status(...)`: the charge
\* point has no such method (it is the GUI's), so AttributeError leaves the coroutine.
RfidAfterAuthorize(outcome) ==
    IF ~outcome.ok THEN "done"
    ELSE IF outcome.status # "Accepted" THEN "raised"
    ELSE "prepResp"

\* the Authorize response; when accepted `self.charging = True` and
\* StatusNotification(Preparing)
Rfid_flow_authResp(f) ==
    /\ prog = "RFID"
    /\ cpflow[f].pc = "authResp"
    /\ \E outcome \in AuthOutcomes :
         LET next == RfidAfterAuthorize(outcome) IN
             /\ cpflow' = [cpflow EXCEPT ![f].pc = next, ![f].auth = AuthResult(outcome)]
             /\ IF next = "prepResp"
                THEN /\ cp' = [cp EXCEPT !.charging = TRUE]
                     /\ Emit(CPStatusMsg(f, "Preparing"))
                ELSE UNCHANGED <<cp, last, trace>>
    /\ UNCHANGED <<prog, notCP, cptask, cphb, nStarts>>

\* the flow's task ends with the exception that left its coroutine
Rfid_flow_raise(f) ==
    /\ prog = "RFID"
    /\ cpflow[f].pc = "raised"
    /\ cpflow' = [cpflow EXCEPT ![f] = CPIdleFlow]
    /\ Forget(f)
    /\ UNCHANGED <<prog, notCP, cp, cptask, cphb, nStarts>>

\* the StatusNotification(Preparing) call ends; asyncio.sleep(2) begins
CP_flow_prepResp(f) ==
    /\ prog \in CPProgs
    /\ cpflow[f].pc = "prepResp"
    /\ \E end \in CallEnds : cp' = CPAfterCall(end, cp)
    /\ cpflow' = [cpflow EXCEPT ![f].pc = "prepSleep"]
    /\ UNCHANGED <<prog, notCP, cptask, cphb, last, trace, nStarts>>

\* after asyncio.sleep(2): send_start_transaction, the request (meter_start=0)
CP_flow_startTx(f) ==
    /\ prog \in CPProgs
    /\ cpflow[f].pc = "prepSleep"
    /\ Emit(Msg(f, "StartTransaction", "", None, 0))
    /\ cpflow' = [cpflow EXCEPT ![f].pc = "startResp"]
    /\ UNCHANGED <<prog, notCP, cp, cptask, cphb, nStarts>>

\* outcomes of the StartTransaction call
CPStartOutcomes ==
    {[ok |-> FALSE, status |-> e, tx |-> 0] : e \in {"closed", "error"}} \cup
    {[ok |-> TRUE, status |-> s, tx |-> t] : s \in AuthStatuses, t \in ServerTxIds}

\* what send_start_transaction leaves in the charge point
CPStartOutcome(outcome, c) ==
    IF outcome.ok THEN [c EXCEPT !.transaction_id = Some(outcome.tx)]
    ELSE [CPAfterCall(outcome.status, c) EXCEPT !.charging = FALSE]

\* the StartTransaction response, then StatusNotification(Charging)
CP_flow_startResp(f) ==
    /\ prog \in CPProgs
    /\ cpflow[f].pc = "startResp"
    /\ \E outcome \in CPStartOutcomes :
         /\ cp' = CPStartOutcome(outcome, cp)
         /\ cpflow' = [cpflow EXCEPT
                ![f].pc = "chgResp",
                ![f].res = StartResult(outcome),
                ![f].tx = IF StartResult(outcome) = "accepted" THEN outcome.tx ELSE 0]
    /\ Emit(CPStatusMsg(f, "Charging"))
    /\ UNCHANGED <<prog, notCP, cptask, cphb, nStarts>>

\* after simulate_meter_values, the charge point being c: `if self.charging` sends
\* StopTransaction(Local); otherwise `self.charging = False` and the flow returns
CPAfterLoop(f, c) ==
    IF c.charging
    THEN /\ Emit(CPStopMsg(f, "Local", c))
         /\ cpflow' = [cpflow EXCEPT ![f].pc = "stopResp"]
         /\ cp' = c
    ELSE /\ cpflow' = [cpflow EXCEPT ![f].pc = "done"]
         /\ cp' = [c EXCEPT !.charging = FALSE]
         /\ UNCHANGED <<last, trace>>

\* whether round i of simulate_meter_values is entered
CPLoopGoesOn(i, charging, connected) == i <= CPMeterSamples /\ charging /\ connected

\* the head of round i of simulate_meter_values, the charge point being c
CPLoopHead(f, i, total, c) ==
    IF CPLoopGoesOn(i, c.charging, c.connected)
    THEN /\ cpflow' = [cpflow EXCEPT ![f].pc = "mSleep", ![f].i = i, ![f].total_energy = total]
         /\ cp' = c
         /\ UNCHANGED <<last, trace>>
    ELSE CPAfterLoop(f, c)

\* the StatusNotification(Charging) call ends: simulate_meter_values starts
CP_flow_charging(f) ==
    /\ prog \in CPProgs
    /\ cpflow[f].pc = "chgResp"
    /\ \E end \in CallEnds : CPLoopHead(f, 1, 0, CPAfterCall(end, cp))
    /\ UNCHANGED <<prog, notCP, cptask, cphb, nStarts>>

\* the wake-up from asyncio.sleep(3): total_energy advances and MeterValues is sent
CP_flow_meter(f) ==
    /\ prog \in CPProgs
    /\ cpflow[f].pc = "mSleep"
    /\ LET total == cpflow[f].total_energy + cpflow[f].i * CPPowerStepW IN
         /\ cpflow' = [cpflow EXCEPT ![f].pc = "mvResp", ![f].total_energy = total]
         /\ Emit(Msg(f, "MeterValues", "", cp.transaction_id, total))
    /\ UNCHANGED <<prog, notCP, cp, cptask, cphb, nStarts>>

\* the MeterValues call ends: the next round, or `break` when it raised
CP_flow_mvResp(f) ==
    /\ prog \in CPProgs
    /\ cpflow[f].pc = "mvResp"
    /\ \E end \in CallEnds :
         IF end = "ok" THEN CPLoopHead(f, cpflow[f].i + 1, cpflow[f].total_energy, cp)
         ELSE CPAfterLoop(f, CPAfterCall(end, cp))
    /\ UNCHANGED <<prog, notCP, cptask, cphb, nStarts>>

\* what send_stop_transaction leaves in the charge point when its call ends
CPStopOutcome(end, c) ==
    IF end = "ok" THEN [c EXCEPT !.transaction_id = None] ELSE CPAfterCall(end, c)

\* the StopTransaction call ends, then StatusNotification(Available)
CP_flow_stopResp(f) ==
    /\ prog \in CPProgs
    /\ cpflow[f].pc = "stopResp"
    /\ \E end \in CallEnds : cp' = CPStopOutcome(end, cp)
    /\ Emit(CPStatusMsg(f, "Available"))
    /\ cpflow' = [cpflow EXCEPT ![f].pc = "availResp"]
    /\ UNCHANGED <<prog, notCP, cptask, cphb, nStarts>>

\* the StatusNotification(Available) call ends: `self.charging = False`
CP_flow_end(f) ==
    /\ prog \in CPProgs
    /\ cpflow[f].pc = "availResp"
    /\ \E end \in CallEnds : cp' = [CPAfterCall(end, cp) EXCEPT !.charging = FALSE]
    /\ cpflow' = [cpflow EXCEPT ![f].pc = "done"]
    /\ UNCHANGED <<prog, notCP, cptask, cphb, last, trace, nStarts>>

\* the start_charging_sequence coroutine returns and its task ends
CP_flow_return(f) ==
    /\ prog \in CPProgs
    /\ cpflow[f].pc = "done"
    /\ cpflow' = [cpflow EXCEPT ![f] = CPIdleFlow]
    /\ Forget(f)
    /\ UNCHANGED <<prog, notCP, cp, cptask, cphb, nStarts>>

\* EVChargerGUI.stop_charging: clears charging and creates two tasks
CP_stop_charging ==
    /\ prog \in CPProgs
    /\ gui.cp /\ cp.charging
    /\ \A t \in CPStopTasks : cptask[t] = "idle"
    /\ cp' = [cp EXCEPT !.charging = FALSE]
    /\ cptask' = [t \in CPStopTasks |-> "start"]
    /\ UNCHANGED <<prog, notCP, cpflow, cphb, last, trace, nStarts>>

\* the stop button's send_stop_transaction(reason="Local") task runs up to its call
CP_stop_stopTx ==
    /\ prog \in CPProgs
    /\ cptask["cStop"] = "start"
    /\ Post(CPStopMsg("cStop", "Local", cp))
    /\ cptask' = [cptask EXCEPT !["cStop"] = "resp"]
    /\ UNCHANGED <<prog, notCP, cp, cpflow, cphb, nStarts>>

\* the stop button's send_status_notification(available) task runs up to its call;
\* the event loop starts tasks in the order of their creation
CP_stop_status ==
    /\ prog \in CPProgs
    /\ cptask["cAvail"] = "start"
    /\ cptask["cStop"] # "start"
    /\ Post(CPStatusMsg("cAvail", "Available"))
    /\ cptask' = [cptask EXCEPT !["cAvail"] = "resp"]
    /\ UNCHANGED <<prog, notCP, cp, cpflow, cphb, nStarts>>

\* the call of one of the stop button's tasks ends, and the task with it
CP_stop_resp(t) ==
    /\ prog \in CPProgs
    /\ cptask[t] = "resp"
    /\ \E end \in CallEnds :
         cp' = IF t = "cStop" THEN CPStopOutcome(end, cp) ELSE CPAfterCall(end, cp)
    /\ cptask' = [cptask EXCEPT ![t] = "idle"]
    /\ UNCHANGED <<prog, notCP, cpflow, cphb, last, trace, nStarts>>

\* the test of on_remote_stop_transaction
CPRemoteStopMatches(charging, tx_id, transaction_id) ==
    charging /\ tx_id = Some(transaction_id)

\* the status on_remote_stop_transaction returns
CPRemoteStopStatus(charging, tx_id, transaction_id) ==
    IF CPRemoteStopMatches(charging, tx_id, transaction_id) THEN "Accepted" ELSE "Rejected"

\* on_remote_stop_transaction: a match clears charging; nothing is sent
CP_on_remote_stop_transaction(transaction_id) ==
    /\ prog \in CPProgs
    /\ cp' = IF CPRemoteStopMatches(cp.charging, cp.transaction_id, transaction_id)
             THEN [cp EXCEPT !.charging = FALSE] ELSE cp
    /\ UNCHANGED <<prog, notCP, cpflow, cptask, cphb, last, trace, nStarts>>

\* the `while self.connected` of periodic_heartbeat
CPHeartbeatLoop(connected) == IF connected THEN "sleep" ELSE "dead"

\* periodic_heartbeat wakes up: Heartbeat is called when not charging and connected
CP_heartbeat_wake(h) ==
    /\ prog \in CPProgs
    /\ cphb[h] = "sleep"
    /\ IF ~cp.charging /\ cp.connected
       THEN /\ Post(Msg("chb", "Heartbeat", "", None, 0))
            /\ cphb' = [cphb EXCEPT ![h] = "resp"]
       ELSE /\ cphb' = [cphb EXCEPT ![h] = CPHeartbeatLoop(cp.connected)]
            /\ UNCHANGED <<last, trace>>
    /\ UNCHANGED <<prog, notCP, cp, cpflow, cptask, nStarts>>

\* send_heartbeat: the call ends; any exception clears self.connected
CP_heartbeat_resp(h) ==
    /\ prog \in CPProgs
    /\ cphb[h] = "resp"
    /\ \E end \in CallEnds :
         LET connected == cp.connected /\ end = "ok" IN
             /\ cp' = [cp EXCEPT !.connected = connected]
             /\ cphb' = [cphb EXCEPT ![h] = CPHeartbeatLoop(connected)]
    /\ UNCHANGED <<prog, notCP, cpflow, cptask, last, trace, nStarts>>

----------------------------------------------------------------------------
(* Strings of configuration values: sequences of characters *)

S_true == <<"t", "r", "u", "e">>
S_false == <<"f", "a", "l", "s", "e">>
S_yes == <<"y", "e", "s">>
S_on == <<"o", "n">>
S_0 == <<"0">>
S_1 == <<"1">>

UpperToLower ==
    [A |-> "a", B |-> "b", C |-> "c", D |-> "d", E |-> "e", F |-> "f", G |-> "g",
     H |-> "h", I |-> "i", J |-> "j", K |-> "k", L |-> "l", M |-> "m", N |-> "n",
     O |-> "o", P |-> "p", Q |-> "q", R |-> "r", S |-> "s", T |-> "t", U |-> "u",
     V |-> "v", W |-> "w", X |-> "x", Y |-> "y", Z |-> "z"]

\* str.lower()
StrLower(s) ==
    [i \in 1..Len(s) |-> IF s[i] \in DOMAIN UpperToLower THEN UpperToLower[s[i]] ELSE s[i]]

Whitespace == {" ", "\t", "\n"}

\* str.strip()
StrStrip(s) ==
    LET keep == {i \in 1..Len(s) : s[i] \notin Whitespace} IN
        IF keep = {} THEN <<>>
        ELSE SubSeq(s, CHOOSE i \in keep : \A j \in keep : i <= j,
                       CHOOSE i \in keep : \A j \in keep : i >= j)

DigitChars == <<"0", "1", "2", "3", "4", "5", "6", "7", "8", "9">>
IsDigitChar(c) == \E d \in 1..10 : DigitChars[d] = c
DigitVal(c) == (CHOOSE d \in 1..10 : DigitChars[d] = c) - 1

\* str.isdigit()
StrIsDigit(s) == Len(s) > 0 /\ \A i \in 1..Len(s) : IsDigitChar(s[i])

RECURSIVE StrToNat(_)
StrToNat(s) ==
    IF s = <<>> THEN 0
    ELSE 10 * StrToNat(SubSeq(s, 1, Len(s) - 1)) + DigitVal(s[Len(s)])

\* int(value): None when it raises ValueError
ParseInt(s) ==
    LET t == StrStrip(s)
        signed == Len(t) > 0 /\ t[1] \in {"+", "-"}
        body == IF signed THEN SubSeq(t, 2, Len(t)) ELSE t
    IN  IF ~StrIsDigit(body) THEN None
        ELSE IF signed /\ t[1] = "-" THEN Some(0 - StrToNat(body))
        ELSE Some(StrToNat(body))

RECURSIVE NatToStr(_)
NatToStr(n) ==
    IF n < 10 THEN <<DigitChars[n + 1]>>
    ELSE NatToStr(n \div 10) \o <<DigitChars[(n % 10) + 1]>>

\* str(n) of an int
IntToStr(n) == IF n < 0 THEN <<"-">> \o NatToStr(0 - n) ELSE NatToStr(n)

\* def _as_bool(v): str(v).strip().lower() in ("1", "true", "yes", "on")
AsBool(v) == StrLower(StrStrip(v)) \in {S_1, S_true, S_yes, S_on}

\* values a CSMS writes with ChangeConfiguration
CfgValues ==
    {S_true, S_false, S_yes, S_on, S_0, S_1,
     <<"T", "r", "u", "e">>, <<" ", "O", "N", " ">>, <<"o", "f", "f">>, <<"n", "o">>,
     <<>>, <<"6", "0">>, <<"0", "9", "0", "0">>, <<" ", "7">>, <<"-", "5">>,
     <<"1", "2", "x">>, <<"3", "0">>, <<"1", "5">>}

\* keys a CSMS reads or writes
CfgKeys ==
    {"AuthorizeRequired", "evb_SkipAuthorize", "evb_AutoStart", "HeartbeatInterval",
     "MeterValuesSampleInterval", "MeterValueSampleInterval", "Unknown"}

\* the key argument of GetConfiguration: absent, or a list of keys
CfgRequests ==
    {[given |-> FALSE, keys |-> <<>>], [given |-> TRUE, keys |-> <<>>],
     [given |-> TRUE, keys |-> <<"AuthorizeRequired", "evb_SkipAuthorize", "evb_AutoStart">>],
     [given |-> TRUE, keys |-> <<"Unknown", "HeartbeatInterval">>]}

\* the entries of a GetConfiguration response for the requested keys of a store
CfgEntries(requested, store) ==
    LET known == SelectSeq(requested, LAMBDA k : k \in DOMAIN store) IN
        [i \in 1..Len(known) |-> [key |-> known[i], value |-> store[known[i]], readonly |-> FALSE]]

\* the call result a configuration handler returns, handed to the transport
CfgReply(type, status) == Msg("csms", type, status, None, 0)

\* variant: no key is reported unknown
CfgUnknownNone(requested, store) == None

\* the unknownKey of a GetConfiguration response: `unknown_key or None`
CfgUnknown(requested, store) ==
    LET unknown == SelectSeq(requested, LAMBDA k : k \notin DOMAIN store) IN
        IF unknown = <<>> THEN None ELSE unknown

----------------------------------------------------------------------------
(* The configuration store of EVBoxG3Simulator (src/evbox_g3_mock.py) *)

\* list(self._config.keys()): the keys in the order _ensure_config inserts them
G3ConfigKeyList ==
    <<"AuthorizeRequired", "HeartbeatInterval", "MeterValuesSampleInterval", "evb_SkipAuthorize">>

\* the dictionary _ensure_config creates
G3DefaultConfig ==
    [AuthorizeRequired |-> S_true, HeartbeatInterval |-> <<"9", "0", "0">>,
     MeterValuesSampleInterval |-> <<"6", "0">>, evb_SkipAuthorize |-> S_0]

\* before the first handler runs neither self._config nor self.authorize_required exists
G3CfgFields == [config |-> [k \in {} |-> <<>>], authorize_required |-> None]

G3CfgInit == g3cfg = G3CfgFields

\* _ensure_config
G3EnsureConfig(c) ==
    LET config == IF DOMAIN c.config = {} THEN G3DefaultConfig ELSE c.config IN
        [config |-> config,
         authorize_required |->
             IF c.authorize_required = None
             THEN Some(StrLower(config["AuthorizeRequired"]) = S_true)
             ELSE c.authorize_required]

\* on_get_configuration: the response
G3GetConfiguration(c, request) ==
    LET config == G3EnsureConfig(c).config
        requested == IF request.given THEN request.keys ELSE G3ConfigKeyList
    IN  [configuration_key |-> CfgEntries(requested, config),
         unknown_key |-> CfgUnknown(requested, config)]

\* "true" if b else "false"
BoolStr(b) == IF b THEN S_true ELSE S_false

\* variant: evb_SkipAuthorize follows AuthorizeRequired
G3SkipAuthorizeSame(authorize) == IF authorize THEN S_1 ELSE S_0

\* the evb_SkipAuthorize value kept for an AuthorizeRequired value: "0" if b else "1"
G3SkipAuthorizeFor(authorize) == IF authorize THEN S_0 ELSE S_1

\* the store with AuthorizeRequired, its attribute and evb_SkipAuthorize set together
G3SetAuthorize(c, authorize) ==
    [config |-> [c.config EXCEPT !["AuthorizeRequired"] = BoolStr(authorize),
                                 !["evb_SkipAuthorize"] = G3SkipAuthorizeFor(authorize)],
     authorize_required |-> Some(authorize)]

\* variant: every key passes the test
G3KnownKeyAny(c, key) == TRUE

\* `key not in self._config` is false
G3KnownKey(c, key) == key \in DOMAIN c.config

\* self._config[key] = str(value): the dictionary with the key set, added when absent
G3Store(config, key, value) ==
    [k \in DOMAIN config \cup {key} |-> IF k = key THEN value ELSE config[k]]

\* variant: the value is written before the digit test returns Rejected
G3RejectedAfterWrite(c, key, value) ==
    [store |-> [c EXCEPT !.config[key] = value], status |-> "Rejected"]

\* the return of Rejected for a numeric key whose value is not all digits comes
\* before the write of self._config[key]
G3Rejected(c, key, value) == [store |-> c, status |-> "Rejected"]

\* on_change_configuration: the store it leaves and the status it returns
G3ChangeConfiguration(c0, key, value) ==
    LET c == G3EnsureConfig(c0) IN
        IF ~G3KnownKey(c, key)
        THEN [store |-> c, status |-> "NotSupported"]
        ELSE IF key = "AuthorizeRequired"
        THEN [store |-> G3SetAuthorize(c, AsBool(value)), status |-> "Accepted"]
        ELSE IF key = "evb_SkipAuthorize"
        THEN [store |-> G3SetAuthorize(c, ~AsBool(value)), status |-> "Accepted"]
        ELSE IF key \in {"HeartbeatInterval", "MeterValuesSampleInterval"} /\ ~StrIsDigit(value)
        THEN G3Rejected(c, key, value)
        ELSE [store |-> [c EXCEPT !.config = G3Store(@, key, value)], status |-> "Accepted"]

\* the GetConfiguration handler
G3_on_get_configuration(request) ==
    /\ prog = "G3"
    /\ g3cfg' = G3EnsureConfig(g3cfg)
    /\ Post(CfgReply("GetConfiguration", ""))
    /\ UNCHANGED <<prog, gui, g3vars, mockvars, cpvars, nStarts>>

\* the ChangeConfiguration handler
G3_on_change_configuration(key, value) ==
    /\ prog = "G3"
    /\ g3cfg' = G3ChangeConfiguration(g3cfg, key, value).store
    /\ Post(CfgReply("ChangeConfiguration", G3ChangeConfiguration(g3cfg, key, value).status))
    /\ UNCHANGED <<prog, gui, g3vars, mockvars, cpvars, nStarts>>

----------------------------------------------------------------------------
(* The configuration handlers of EVBoxMock (src/mock_EVBOX.py) *)

\* list(store.keys())
MockConfigKeyList ==
    <<"AuthorizeRequired", "MeterValuesSampleInterval", "HeartbeatInterval", "evb_AutoStart">>

\* str(v)
PyToStr(v) == IF v.kind = "int" THEN IntToStr(v.n) ELSE v.s

\* the store on_get_configuration builds from the fields of the charge point
MockConfigStore(m) ==
    [AuthorizeRequired |-> BoolStr(m.authorize_required),
     MeterValuesSampleInterval |-> IntToStr(m.meter_values_interval),
     HeartbeatInterval |-> PyToStr(m.heartbeat_interval),
     evb_AutoStart |-> IF m.authorize_required THEN S_0 ELSE S_1]

\* on_get_configuration: the response; `key or list(store.keys())`
MockGetConfiguration(m, request) ==
    LET store == MockConfigStore(m)
        requested == IF request.given /\ request.keys # <<>> THEN request.keys
                     ELSE MockConfigKeyList
    IN  [configuration_key |-> CfgEntries(requested, store),
         unknown_key |-> CfgUnknown(requested, store)]

\* the keys on_change_configuration tests for
MockChangeKeys == {"AuthorizeRequired", "evb_AutoStart", "HeartbeatInterval", "MeterValuesSampleInterval"}

\* autostart_on = str(value) in ("1", "true", "yes")
MockAutoStartOn(value) == value \in {S_1, S_true, S_yes}

\* on_change_configuration: the charge point it leaves and the status it returns
MockChangeConfiguration(m, key, value) ==
    IF key = "AuthorizeRequired"
    THEN [cp |-> [m EXCEPT !.authorize_required = (StrLower(value) = S_true)],
          status |-> "Accepted"]
    ELSE IF key = "evb_AutoStart"
    THEN [cp |-> [m EXCEPT !.authorize_required = ~MockAutoStartOn(value)],
          status |-> "Accepted"]
    ELSE IF key \in {"HeartbeatInterval", "MeterValuesSampleInterval"}
    THEN IF ParseInt(value) = None
         THEN [cp |-> m, status |-> "Rejected"]
         ELSE IF key = "HeartbeatInterval"
         THEN [cp |-> [m EXCEPT !.heartbeat_interval = PyInt(Val(ParseInt(value)))],
               status |-> "Accepted"]
         ELSE [cp |-> [m EXCEPT !.meter_values_interval = Max(1, Val(ParseInt(value)))],
               status |-> "Accepted"]
    ELSE [cp |-> m, status |-> "NotSupported"]

\* the GetConfiguration handler: it reads the charge point and writes nothing
Mock_on_get_configuration(request) ==
    /\ prog = "Mock"
    /\ Post(CfgReply("GetConfiguration", ""))
    /\ UNCHANGED <<prog, notMock, mockvars, nStarts>>

\* the ChangeConfiguration handler
Mock_on_change_configuration(key, value) ==
    /\ prog = "Mock"
    /\ mock' = MockChangeConfiguration(mock, key, value).cp
    /\ Post(CfgReply("ChangeConfiguration", MockChangeConfiguration(mock, key, value).status))
    /\ UNCHANGED <<prog, notMock, mflow, mtask, mhb, nStarts>>

----------------------------------------------------------------------------
(* Connection lifecycle: the GUI's connect and disconnect buttons, start(),
   monitor_connection and resume_connection.  One charge-point object at a time:
   async_connect_to_server creates the next one when every task of the previous
   one has ended, and one connect task runs at a time. *)

\* the programs whose connect, boot and disconnect are modelled
BootProgs == {"G3", "Mock"}

\* the GUI after construction: no charge point, the monitor task sleeping
GuiIdle ==
    [cp |-> FALSE, websocket |-> "none", connection |-> "none", boot |-> "none",
     conn |-> "idle", mon |-> "sleep", unavail |-> FALSE, id_tag |-> GuiIdTag]

\* self.cp.connected
CpConnected ==
    IF prog = "G3" THEN g3.connected
    ELSE IF prog = "Mock" THEN mock.connected
    ELSE cp.connected

\* the BootNotification call: it fails, or the response has a status and maybe an
\* interval
BootIntervals ==
    {PyAbsent, PyInt(0), PyInt(60), PyStr(<<>>), PyStr(<<"a", "b">>), PyStr(<<"4", "5">>)}
BootResponses ==
    {[ok |-> FALSE, status |-> "", interval |-> PyAbsent]}
        \cup {[ok |-> TRUE, status |-> st, interval |-> v] :
                 st \in {"Accepted", "Rejected"}, v \in BootIntervals}
\* the responses that carry no interval
PlainBootResponses == {r \in BootResponses : r.interval = PyAbsent}

\* int(getattr(resp, 'interval', self.heartbeat_interval) or 900), 900 when it raises
G3BootInterval(interval, current) ==
    LET given == IF interval.kind = "absent" THEN PyInt(current) ELSE interval
        v == IF PyTruthy(given) THEN given ELSE PyInt(DefaultHeartbeatInterval)
    IN  IF v.kind = "int" THEN v.n
        ELSE IF ParseInt(v.s) # None THEN Val(ParseInt(v.s))
        ELSE DefaultHeartbeatInterval

\* getattr(resp, "interval", 900) or 900
MockBootInterval(interval) ==
    IF interval.kind # "absent" /\ PyTruthy(interval) THEN interval
    ELSE PyInt(DefaultHeartbeatInterval)

\* toggle_connection with no charge point: connect_to_server creates the
\* async_connect_to_server task
GUI_connect_to_server ==
    /\ prog \in BootProgs
    /\ ~gui.cp /\ gui.conn = "idle"
    /\ gui' = [gui EXCEPT !.conn = "connecting"]
    /\ UNCHANGED <<prog, g3vars, g3cfg, mockvars, cpvars, last, trace, nStarts>>

\* no task of the previous EVBoxG3Simulator is left
G3ObjectIdle ==
    /\ ~g3hb
    /\ \A f \in G3Flows : g3flow[f].pc = "idle"
    /\ \A t \in G3StopTasks : g3stop[t].pc = "idle"

\* async_connect_to_server: websockets.connect has returned, a new EVBoxG3Simulator is
\* created and its start() sends BootNotification (a failed connect sleeps and tries
\* again)
G3_async_connect_to_server ==
    /\ prog = "G3"
    /\ gui.conn = "connecting"
    /\ G3ObjectIdle
    /\ gui' = [gui EXCEPT !.websocket = "conn", !.cp = TRUE, !.connection = "conn",
                          !.boot = "none", !.conn = "boot"]
    /\ g3' = G3Fields
    /\ g3cfg' = G3CfgFields
    /\ UNCHANGED <<prog, g3flow, g3stop, g3hb, mockvars, cpvars, last, trace, nStarts>>

\* start() of EVBoxG3Simulator once the BootNotification call has ended
G3Start(g, resp) ==
    IF ~resp.ok \/ resp.status # "Accepted" THEN [g EXCEPT !.connected = FALSE]
    ELSE [g EXCEPT !.heartbeat_interval = G3BootInterval(resp.interval, @)]

\* how the boot handshake ended
BootEnd(resp) == IF resp.ok /\ resp.status = "Accepted" THEN "accepted" ELSE "refused"

\* the BootNotification call of start() ends; when accepted _heartbeat_task is created
G3_start(resp) ==
    /\ prog = "G3"
    /\ gui.conn = "boot"
    /\ g3' = G3Start(g3, resp)
    /\ g3hb' = (BootEnd(resp) = "accepted")
    /\ gui' = [gui EXCEPT !.conn = "idle", !.boot = BootEnd(resp)]
    /\ UNCHANGED <<prog, g3cfg, g3flow, g3stop, mockvars, cpvars, last, trace, nStarts>>

\* toggle_connection with a charge point: disconnect_from_server
G3_disconnect_from_server ==
    /\ prog = "G3"
    /\ gui.cp
    /\ g3' = [g3 EXCEPT !.charging = FALSE]
    /\ gui' = [gui EXCEPT !.cp = FALSE, !.websocket = "none"]
    /\ UNCHANGED <<prog, g3cfg, g3flow, g3stop, g3hb, mockvars, cpvars, last, trace,
                   nStarts>>

\* no task of the previous EVBoxMock is left
MockObjectIdle ==
    /\ mhb = 0
    /\ ~gui.unavail
    /\ \A f \in MockFlows : mflow[f].pc = "idle"
    /\ \A t \in MockStopTasks : mtask[t] = "idle"

\* async_connect_to_server: websockets.connect has returned, a new EVBoxMock is created
\* and its start() sends BootNotification
Mock_async_connect_to_server ==
    /\ prog = "Mock"
    /\ gui.conn = "connecting"
    /\ MockObjectIdle
    /\ gui' = [gui EXCEPT !.websocket = "conn", !.cp = TRUE, !.connection = "conn",
                          !.boot = "none", !.conn = "boot"]
    /\ mock' = MockFields
    /\ UNCHANGED <<prog, g3vars, g3cfg, mflow, mtask, mhb, cpvars, last, trace, nStarts>>

\* start() of EVBoxMock once the BootNotification call has ended
MockStart(m, resp) ==
    IF ~resp.ok THEN [m EXCEPT !.connected = FALSE]
    ELSE [m EXCEPT !.heartbeat_interval = MockBootInterval(resp.interval),
                   !.connected = IF resp.status = "Accepted" THEN @ ELSE FALSE]

\* the BootNotification call of start() ends; when accepted periodic_heartbeat is
\* created (and _post_boot_notifications, whose requests are those of Mock_send_evb)
Mock_start(resp) ==
    /\ prog = "Mock"
    /\ gui.conn = "boot"
    /\ mhb < MaxHbTasks
    /\ mock' = MockStart(mock, resp)
    /\ mhb' = IF BootEnd(resp) = "accepted" THEN mhb + 1 ELSE mhb
    /\ gui' = [gui EXCEPT !.conn = "idle", !.boot = BootEnd(resp)]
    /\ UNCHANGED <<prog, g3vars, g3cfg, mflow, mtask, cpvars, last, trace, nStarts>>

\* _send_evb: the DataTransfer call of send_evb_connection_info or
\* send_evb_connectors_notification ends; ConnectionClosed clears self.connected
MockAfterSendEvb(end, m) == IF end = "closed" THEN [m EXCEPT !.connected = FALSE] ELSE m

\* a send_evb_* task (a GUI button's, or of _post_boot_notifications) ends its call
Mock_send_evb ==
    /\ prog = "Mock"
    /\ gui.cp
    /\ \E end \in CallEnds : mock' = MockAfterSendEvb(end, mock)
    /\ UNCHANGED <<prog, notMock, mflow, mtask, mhb, last, trace, nStarts>>

\* toggle_connection with a charge point: disconnect_from_server clears charging,
\* creates the _send_status(unavailable) and websocket.close() tasks, drops self.cp
Mock_disconnect_from_server ==
    /\ prog = "Mock"
    /\ gui.cp /\ ~gui.unavail
    /\ mock' = [mock EXCEPT !.charging = FALSE]
    /\ gui' = [gui EXCEPT !.cp = FALSE, !.websocket = "none", !.unavail = TRUE]
    /\ UNCHANGED <<prog, g3vars, g3cfg, mflow, mtask, mhb, cpvars, last, trace, nStarts>>

\* the _send_status(unavailable) task of disconnect_from_server
Mock_disconnect_status ==
    /\ prog = "Mock"
    /\ gui.unavail
    /\ gui' = [gui EXCEPT !.unavail = FALSE]
    /\ Post(MockStatusMsg("gui", "Unavailable"))
    /\ UNCHANGED <<prog, g3vars, g3cfg, mockvars, cpvars, nStarts>>

\* monitor_connection wakes up: with a charge point whose connected is false it
\* begins to close self.websocket
GUI_monitor_connection ==
    /\ gui.mon = "sleep"
    /\ gui.cp /\ ~CpConnected
    /\ gui' = [gui EXCEPT !.mon = "closing"]
    /\ UNCHANGED <<prog, g3vars, g3cfg, mockvars, cpvars, last, trace, nStarts>>

\* monitor_connection: websocket.close() has ended; websockets.connect is called
GUI_monitor_closed ==
    /\ gui.mon = "closing"
    /\ gui' = [gui EXCEPT !.mon = "connecting"]
    /\ UNCHANGED <<prog, g3vars, g3cfg, mockvars, cpvars, last, trace, nStarts>>

\* monitor_connection: what the end of websockets.connect leaves of the GUI: a new
\* self.websocket when it connected, and the charge point bound to it when
\* resume_connection ran
GuiAfterReconnect(g, ok, resumed) ==
    [g EXCEPT !.mon = "sleep",
              !.websocket = IF ok THEN "mon" ELSE @,
              !.connection = IF ok /\ resumed THEN "mon" ELSE @]

\* monitor_connection of the G3's GUI: websockets.connect ends; EVBoxG3Simulator has
\* no resume_connection, so the call raises AttributeError, which the monitor logs
G3_monitor_reconnect(ok) ==
    /\ prog = "G3"
    /\ gui.mon = "connecting"
    /\ gui' = GuiAfterReconnect(gui, ok, FALSE)
    /\ UNCHANGED <<prog, g3vars, g3cfg, mockvars, cpvars, last, trace, nStarts>>

\* EVBoxMock.resume_connection: the fields it leaves
MockResumeConnectionReset(m) == [MockFields EXCEPT !.connected = TRUE]
MockResumeConnection(m) == [m EXCEPT !.connected = TRUE]

\* monitor_connection of the Mock's GUI: websockets.connect ends; when it connected
\* resume_connection binds the charge point to the new connection and creates a
\* periodic_heartbeat task (with self.cp None the call raises, which is logged)
Mock_monitor_reconnect(ok) ==
    /\ prog = "Mock"
    /\ gui.mon = "connecting"
    /\ gui' = GuiAfterReconnect(gui, ok, gui.cp)
    /\ IF ok /\ gui.cp
       THEN /\ mhb < MaxHbTasks
            /\ mock' = MockResumeConnection(mock)
            /\ mhb' = mhb + 1
       ELSE UNCHANGED <<mock, mhb>>
    /\ UNCHANGED <<prog, g3vars, g3cfg, mflow, mtask, cpvars, last, trace, nStarts>>

\* CP_Simulator.resume_connection of simulador_rfid.py: the fields it leaves
RfidResumeConnection(c) == [c EXCEPT !.connected = TRUE]

\* the slot of the periodic_heartbeat task resume_connection creates
RfidFreeHb(h) == cphb[h] = "dead" /\ \A k \in HbTasks : k < h => cphb[k] # "dead"

\* monitor_connection of the GUI of simulador_rfid.py: websockets.connect ends; when it
\* connected resume_connection binds the charge point to the new connection and
\* creates a periodic_heartbeat task
Rfid_monitor_reconnect(ok) ==
    /\ prog = "RFID"
    /\ gui.mon = "connecting"
    /\ gui' = GuiAfterReconnect(gui, ok, gui.cp)
    /\ IF ok /\ gui.cp
       THEN /\ cp' = RfidResumeConnection(cp)
            /\ \E h \in HbTasks :
                   /\ RfidFreeHb(h)
                   /\ cphb' = [cphb EXCEPT ![h] = "sleep"]
       ELSE UNCHANGED <<cp, cphb>>
    /\ UNCHANGED <<prog, g3vars, g3cfg, mockvars, cpflow, cptask, last, trace, nStarts>>

----------------------------------------------------------------------------
(* build_evb_status_compact (src/evbox_g3_mock.py) *)

\* the strings the callers pass, as sequences of characters
T_Available == <<"A", "v", "a", "i", "l", "a", "b", "l", "e">>
T_Preparing == <<"P", "r", "e", "p", "a", "r", "i", "n", "g">>
T_Charging == <<"C", "h", "a", "r", "g", "i", "n", "g">>
T_SuspendedEVSE == <<"S", "u", "s", "p", "e", "n", "d", "e", "d", "E", "V", "S", "E">>
T_Green == <<"G", "r", "e", "e", "n">>
T_Off == <<"O", "f", "f">>
T_Blue == <<"B", "l", "u", "e">>
T_NoError == <<"N", "o", "E", "r", "r", "o", "r">>
T_NoErrorDesc == <<"N", "o", " ", "e", "r", "r", "o", "r", ".">>

\* what utc_iso_z() returns at the moment of the call
EvbTimestamps == {<<"2", "0", "2", "6", "-", "1", "1", "-", "0", "4", "T", "1", "2", ":", "0", "0", ":", "0", "0", "Z">>}

EvbStatuses == {T_Available, T_Preparing, T_Charging, T_SuspendedEVSE}
EvbLedColors == {T_Green, T_Off, T_Blue}
EvbConnectorIds == {1, 2}
EvbPlugged == {0, 1}
EvbRegisters == {0, G3InitialEnergyWh}
EvbTxIds == {None, Some(0), Some(7)}

\* ",".join(parts)
RECURSIVE JoinComma(_)
JoinComma(parts) ==
    IF parts = <<>> THEN <<>>
    ELSE IF Len(parts) = 1 THEN parts[1]
    ELSE parts[1] \o <<",">> \o JoinComma(Tail(parts))

\* variant: the vehicle counts as present whenever it is plugged
EvbVehiclePresentPlugged(status, plugged) == IF plugged # 0 THEN 1 ELSE 0

\* vehicle_present = 1 if status in ("Charging", "SuspendedEVSE") else 0
EvbVehiclePresent(status, plugged) == IF status \in {T_Charging, T_SuspendedEVSE} THEN 1 ELSE 0

\* variant: a None transaction id is written as an empty field
EvbTxFieldBlank(tx_id) == IF IsInt(tx_id) THEN IntToStr(Val(tx_id)) ELSE <<>>

\* str(tx_id or 0)
EvbTxField(tx_id) == IntToStr(OrZero(tx_id))

\* the list `parts` of build_evb_status_compact
EvbParts(connector_id, status, error_code, error_desc, led_color, plugged, energy_register_wh, tx_id, now) ==
    <<IntToStr(connector_id),
      status,
      error_code,
      error_desc,
      IntToStr(EvbVehiclePresent(status, plugged)),
      led_color,
      IntToStr(plugged),
      <<"{", "3", "2", ",", "4", "7", "8", "4", ",", "4", "1", "}">>,
      <<"{">> \o IntToStr(energy_register_wh) \o <<",", "0", "}">>,
      <<"{", "C", ",", "1", "1", "9", "1", "2", ",", "5", "9", "0", "8", ",", "1", "1", "9", "4", "4", "}">>,
      <<"1", "6">>, <<"6", "6", "8", "0">>, <<"4", "4", "5">>,
      now,
      EvbTxField(tx_id),
      <<"9", "6">>,
      <<"{", "2", "4", "5", ",", "0", ",", "0", ",", "0", ",", "0", ",", "0", ",", "1", "0", "0", "0", ",", "0", ",", "0", "}">>,
      <<"4", "9">>, <<"0">>, <<"0">>, <<"0">>, <<"0">>, <<"0">>, <<"2", "5", "0">>, <<"5", "0", "0", "0">>>>

\* build_evb_status_compact: the string it returns
build_evb_status_compact(connector_id, status, error_code, error_desc, led_color, plugged, energy_register_wh, tx_id, now) ==
    JoinComma(EvbParts(connector_id, status, error_code, error_desc, led_color, plugged,
                       energy_register_wh, tx_id, now))

\* the payload of a vendor status notification and the arguments it was built from
EvbMsg(connector_id, status, led_color, plugged, energy_register_wh, tx_id, now) ==
    [task |-> "evb", type |-> "evbStatusNotification", arg |-> "", tx |-> None, val |-> 0,
     connector_id |-> connector_id, status |-> status, led_color |-> led_color,
     plugged |-> plugged, energy_register_wh |-> energy_register_wh, tx_id |-> tx_id,
     data |-> build_evb_status_compact(connector_id, status, T_NoError, T_NoErrorDesc,
                                       led_color, plugged, energy_register_wh, tx_id, now)]

\* send_evb_datatransfer up to its DataTransfer request: the payload is built from
\* the arguments with error_code "NoError" and error_desc "No error."
G3_send_evb_datatransfer(connector_id, status, led_color, plugged, energy_register_wh, tx_id, now) ==
    /\ prog = "G3"
    /\ Post(EvbMsg(connector_id, status, led_color, plugged, energy_register_wh, tx_id, now))
    /\ UNCHANGED <<prog, notG3, g3vars, nStarts>>

----------------------------------------------------------------------------
(* The inbound DataTransfer handlers *)

\* what a CSMS sends in a DataTransfer: vendorId, and the optional messageId and data
DtVendors == {"EV-BOX", "ACME"}
DtMessageIds == {None, Some("evbConfigGlobalSet"), Some("evbStatusNotification"), Some("other")}
DtData == {None, Some("{}"), Some("abc")}

\* the call result of a DataTransfer handler, or the exception that left it
DtReply(status) == Msg("csms", "DataTransfer", status, None, 0)

\* on_data_transfer(self, vendor_id, message_id=None, data=None, **kwargs) of
\* EVBoxG3Simulator and of EVBoxMock: every branch logs and the status is Accepted
DataTransferAccepted(vendor_id, message_id, data) == "Accepted"

\* on_data_transfer(self, vendor_id, message_id, data, **kwargs) of simulador_rfid.py:
\* message_id and data have no default, so a call without one of them raises
\* TypeError before the body runs
RfidDataTransfer(vendor_id, message_id, data) ==
    IF message_id = None \/ data = None THEN "TypeError" ELSE "Accepted"

G3_on_data_transfer(vendor_id, message_id, data) ==
    /\ prog = "G3"
    /\ Post(DtReply(DataTransferAccepted(vendor_id, message_id, data)))
    /\ UNCHANGED <<prog, notG3, g3vars, nStarts>>

Mock_on_data_transfer(vendor_id, message_id, data) ==
    /\ prog = "Mock"
    /\ Post(DtReply(DataTransferAccepted(vendor_id, message_id, data)))
    /\ UNCHANGED <<prog, notMock, mockvars, nStarts>>

Rfid_on_data_transfer(vendor_id, message_id, data) ==
    /\ prog = "RFID"
    /\ Post(DtReply(RfidDataTransfer(vendor_id, message_id, data)))
    /\ UNCHANGED <<prog, notCP, cpvars, nStarts>>

----------------------------------------------------------------------------
(* Specifications *)

\* the three programs after construction
ProgInit == GuiInit /\ G3Init /\ G3CfgInit /\ MockInit /\ CPInit

ObsInit ==
    /\ trace = [t \in Tasks |-> <<>>]
    /\ last = NoMsg
    /\ nStarts = 0

\* One session flow at a time: a start request is taken when no flow task is alive.
NextG3 ==
    \/ G3_start_charging("f1", GuiIdTag)
    \/ G3_on_remote_start_transaction("f1", GuiIdTag)
    \/ \E f \in G3Flows : G3_flow_guard(f)
    \/ \E f \in G3Flows : G3_flow_notify(f)
    \/ \E f \in G3Flows : G3_flow_startTx(f)
    \/ \E f \in G3Flows : G3_flow_startResp(f)
    \/ \E f \in G3Flows : G3_flow_rejDT(f)
    \/ \E f \in G3Flows : G3_flow_chgDT(f)
    \/ \E f \in G3Flows : G3_flow_meter(f)
    \/ \E f \in G3Flows, ok \in BOOLEAN : G3_flow_mvDT(f, ok)
    \/ \E f \in G3Flows : G3_flow_stopTx(f)
    \/ \E f \in G3Flows : G3_flow_stopResp(f)
    \/ \E f \in G3Flows : G3_flow_avDT(f)
    \/ \E f \in G3Flows : G3_flow_return(f)
    \/ G3_stop_charging
    \/ \E t \in G3StopTasks : G3_stop_session(t)
    \/ \E id \in ServerTxIds : G3_on_remote_stop_transaction(id)
    \/ \E t \in G3StopTasks : G3_stop_stopResp(t)
    \/ \E t \in G3StopTasks : G3_stop_notify(t)
    \/ \E t \in G3StopTasks : G3_stop_return(t)
    \/ \E ok \in BOOLEAN : G3_heartbeat(ok)

InitG3 == prog = "G3" /\ ProgInit /\ ObsInit

SpecG3 == InitG3 /\ [][NextG3]_vars

\* the ChangeConfiguration writes taken while sessions run: the authorization keys
AuthKeys == {"AuthorizeRequired", "evb_AutoStart"}
AuthValues == {S_true, S_0}

NextMock ==
    \/ \E f \in MockFlows : Mock_start_charging(f)
    \/ \E f \in MockFlows : Mock_on_remote_start_transaction(f)
    \/ \E f \in MockFlows : Mock_flow_begin(f)
    \/ \E f \in MockFlows : Mock_flow_authResp(f)
    \/ \E f \in MockFlows : Mock_flow_startTx(f)
    \/ \E f \in MockFlows : Mock_flow_startResp(f)
    \/ \E f \in MockFlows : Mock_flow_charging(f)
    \/ \E f \in MockFlows : Mock_flow_meter(f)
    \/ \E f \in MockFlows, ok \in BOOLEAN : Mock_flow_mvResp(f, ok)
    \/ \E f \in MockFlows : Mock_flow_stopTx(f)
    \/ \E f \in MockFlows : Mock_flow_stopResp(f)
    \/ \E f \in MockFlows : Mock_flow_end(f)
    \/ \E f \in MockFlows : Mock_flow_return(f)
    \/ Mock_stop_charging
    \/ \E t \in MockStopTasks : Mock_stop_task(t)
    \/ Mock_stop_stopResp
    \/ \E id \in ServerTxIds : Mock_on_remote_stop_transaction(id)
    \/ \E ok \in BOOLEAN : Mock_heartbeat(ok)
    \/ \E k \in AuthKeys, v \in AuthValues : Mock_on_change_configuration(k, v)

InitMock == prog = "Mock" /\ ProgInit /\ ObsInit

SpecMock == InitMock /\ [][NextMock]_vars

\* EVBoxMock through one session
InitMockSingle ==
    /\ prog = "Mock"
    /\ ProgInit
    /\ trace = [t \in Tasks |-> <<>>]
    /\ last = NoMsg
    /\ nStarts = MaxSessions - 1

SpecMockSingle == InitMockSingle /\ [][NextMock]_vars

NextCP ==
    \/ \E f \in CPFlows : CP_start_charging(f)
    \/ \E f \in CPFlows : CP_on_remote_start_transaction(f)
    \/ \E f \in CPFlows : CP_flow_begin(f)
    \/ \E f \in CPFlows : CP_flow_prepResp(f)
    \/ \E f \in CPFlows : CP_flow_startTx(f)
    \/ \E f \in CPFlows : CP_flow_startResp(f)
    \/ \E f \in CPFlows : CP_flow_charging(f)
    \/ \E f \in CPFlows : CP_flow_meter(f)
    \/ \E f \in CPFlows : CP_flow_mvResp(f)
    \/ \E f \in CPFlows : CP_flow_stopResp(f)
    \/ \E f \in CPFlows : CP_flow_end(f)
    \/ \E f \in CPFlows : CP_flow_return(f)
    \/ CP_stop_charging
    \/ CP_stop_stopTx
    \/ CP_stop_status
    \/ \E t \in CPStopTasks : CP_stop_resp(t)
    \/ \E id \in ServerTxIds : CP_on_remote_stop_transaction(id)
    \/ \E h \in HbTasks : CP_heartbeat_wake(h)
    \/ \E h \in HbTasks : CP_heartbeat_resp(h)

InitCP == prog = "CP" /\ ProgInit /\ ObsInit

SpecCP == InitCP /\ [][NextCP]_vars

\* CP_Simulator of simulador_rfid.py, one session flow at a time
NextRfid ==
    \/ \E f \in CPFlows : CP_start_charging(f)
    \/ \E f \in CPFlows : CP_on_remote_start_transaction(f)
    \/ \E f \in CPFlows : Rfid_flow_begin(f)
    \/ \E f \in CPFlows : Rfid_flow_authResp(f)
    \/ \E f \in CPFlows : Rfid_flow_raise(f)
    \/ \E f \in CPFlows : CP_flow_prepResp(f)
    \/ \E f \in CPFlows : CP_flow_startTx(f)
    \/ \E f \in CPFlows : CP_flow_startResp(f)
    \/ \E f \in CPFlows : CP_flow_charging(f)
    \/ \E f \in CPFlows : CP_flow_meter(f)
    \/ \E f \in CPFlows : CP_flow_mvResp(f)
    \/ \E f \in CPFlows : CP_flow_stopResp(f)
    \/ \E f \in CPFlows : CP_flow_end(f)
    \/ \E f \in CPFlows : CP_flow_return(f)
    \/ CP_stop_charging
    \/ CP_stop_stopTx
    \/ CP_stop_status
    \/ \E t \in CPStopTasks : CP_stop_resp(t)
    \/ \E id \in ServerTxIds : CP_on_remote_stop_transaction(id)
    \/ \E h \in HbTasks : CP_heartbeat_wake(h)
    \/ \E h \in HbTasks : CP_heartbeat_resp(h)

InitRfid == prog = "RFID" /\ ProgInit /\ ObsInit

SpecRfid == InitRfid /\ [][NextRfid]_vars

\* The connection lifecycle of EVBoxG3Simulator and EVBoxMock from the GUI's
\* construction, and of the CP_Simulator of simulador_rfid.py from its accepted boot,
\* with the session flow the start button creates
NextG3Life ==
    \/ GUI_connect_to_server
    \/ G3_async_connect_to_server
    \/ \E resp \in PlainBootResponses : G3_start(resp)
    \/ G3_disconnect_from_server
    \/ GUI_monitor_connection
    \/ GUI_monitor_closed
    \/ \E ok \in BOOLEAN : G3_monitor_reconnect(ok)
    \/ \E ok \in BOOLEAN : G3_heartbeat(ok)
    \/ G3_start_charging("f1", GuiIdTag)
    \/ \E f \in G3Flows : G3_flow_guard(f)
    \/ \E f \in G3Flows : G3_flow_notify(f)
    \/ \E f \in G3Flows : G3_flow_startTx(f)
    \/ \E f \in G3Flows : G3_flow_startResp(f)
    \/ \E f \in G3Flows : G3_flow_rejDT(f)
    \/ \E f \in G3Flows : G3_flow_chgDT(f)
    \/ \E f \in G3Flows : G3_flow_meter(f)
    \/ \E f \in G3Flows, ok \in BOOLEAN : G3_flow_mvDT(f, ok)
    \/ \E f \in G3Flows : G3_flow_stopTx(f)
    \/ \E f \in G3Flows : G3_flow_stopResp(f)
    \/ \E f \in G3Flows : G3_flow_avDT(f)
    \/ \E f \in G3Flows : G3_flow_return(f)

NextMockLife ==
    \/ GUI_connect_to_server
    \/ Mock_async_connect_to_server
    \/ \E resp \in PlainBootResponses : Mock_start(resp)
    \/ Mock_disconnect_from_server
    \/ Mock_disconnect_status
    \/ Mock_send_evb
    \/ GUI_monitor_connection
    \/ GUI_monitor_closed
    \/ \E ok \in BOOLEAN : Mock_monitor_reconnect(ok)
    \/ \E ok \in BOOLEAN : Mock_heartbeat(ok)
    \/ \E f \in MockFlows : Mock_start_charging(f)
    \/ \E f \in MockFlows : Mock_flow_begin(f)
    \/ \E f \in MockFlows : Mock_flow_authResp(f)
    \/ \E f \in MockFlows : Mock_flow_startTx(f)
    \/ \E f \in MockFlows : Mock_flow_startResp(f)
    \/ \E f \in MockFlows : Mock_flow_charging(f)
    \/ \E f \in MockFlows : Mock_flow_meter(f)
    \/ \E f \in MockFlows, ok \in BOOLEAN : Mock_flow_mvResp(f, ok)
    \/ \E f \in MockFlows : Mock_flow_stopTx(f)
    \/ \E f \in MockFlows : Mock_flow_stopResp(f)
    \/ \E f \in MockFlows : Mock_flow_end(f)
    \/ \E f \in MockFlows : Mock_flow_return(f)

NextRfidLife ==
    \/ GUI_monitor_connection
    \/ GUI_monitor_closed
    \/ \E ok \in BOOLEAN : Rfid_monitor_reconnect(ok)
    \/ \E h \in HbTasks : CP_heartbeat_wake(h)
    \/ \E h \in HbTasks : CP_heartbeat_resp(h)
    \/ \E f \in CPFlows : CP_start_charging(f)
    \/ \E f \in CPFlows : Rfid_flow_begin(f)
    \/ \E f \in CPFlows : Rfid_flow_authResp(f)
    \/ \E f \in CPFlows : Rfid_flow_raise(f)
    \/ \E f \in CPFlows : CP_flow_prepResp(f)
    \/ \E f \in CPFlows : CP_flow_startTx(f)
    \/ \E f \in CPFlows : CP_flow_startResp(f)
    \/ \E f \in CPFlows : CP_flow_charging(f)
    \/ \E f \in CPFlows : CP_flow_meter(f)
    \/ \E f \in CPFlows : CP_flow_mvResp(f)
    \/ \E f \in CPFlows : CP_flow_stopResp(f)
    \/ \E f \in CPFlows : CP_flow_end(f)
    \/ \E f \in CPFlows : CP_flow_return(f)

\* no charge point yet, so no heartbeat task, where the GUI has to connect first; a
\* behaviour takes one session start less than MaxSessions
InitLife ==
    /\ prog \in {"G3", "Mock", "RFID"}
    /\ gui = IF prog \in BootProgs THEN GuiIdle ELSE GuiConnected
    /\ g3 = G3Fields
    /\ g3flow = [f \in G3Flows |-> G3IdleFlow]
    /\ g3stop = [t \in G3StopTasks |-> G3IdleStop]
    /\ g3hb = FALSE
    /\ G3CfgInit
    /\ mock = MockFields
    /\ mflow = [f \in MockFlows |-> MockIdleFlow]
    /\ mtask = [t \in MockStopTasks |-> "idle"]
    /\ mhb = 0
    /\ CPInit
    /\ trace = [t \in Tasks |-> <<>>]
    /\ last = NoMsg
    /\ nStarts = MaxSessions - 1

NextLife == NextG3Life \/ NextMockLife \/ NextRfidLife

SpecLife == InitLife /\ [][NextLife]_vars

\* EVBoxG3Simulator's lifecycle where the monitor task is scheduled and the central
\* system is reachable: the sleep of monitor_connection ends, its close() returns,
\* and its websockets.connect succeeds again and again
InitG3Life == InitLife /\ prog = "G3"

SpecG3Reconnect ==
    /\ InitG3Life
    /\ [][NextG3Life]_vars
    /\ WF_vars(GUI_monitor_connection)
    /\ WF_vars(GUI_monitor_closed)
    /\ SF_vars(G3_monitor_reconnect(TRUE))

\* The boot handshake alone, with every shape of the response's interval
NextBoot ==
    \/ GUI_connect_to_server
    \/ G3_async_connect_to_server
    \/ \E resp \in BootResponses : G3_start(resp)
    \/ G3_disconnect_from_server
    \/ \E ok \in BOOLEAN : G3_heartbeat(ok)
    \/ Mock_async_connect_to_server
    \/ \E resp \in BootResponses : Mock_start(resp)
    \/ Mock_disconnect_from_server
    \/ Mock_disconnect_status
    \/ \E ok \in BOOLEAN : Mock_heartbeat(ok)
    \/ GUI_monitor_connection
    \/ GUI_monitor_closed
    \/ \E ok \in BOOLEAN : G3_monitor_reconnect(ok)
    \/ \E ok \in BOOLEAN : Mock_monitor_reconnect(ok)

InitBoot == InitLife /\ prog \in BootProgs

SpecBoot == InitBoot /\ [][NextBoot]_vars

\* any of the three simulators, one session flow at a time
InitAll == prog \in {"G3", "Mock", "CP"} /\ ProgInit /\ ObsInit

NextAll == NextG3 \/ NextMock \/ NextCP

SpecAll == InitAll /\ [][NextAll]_vars

\* The three simulators through one session each
InitSingle ==
    /\ prog \in {"G3", "Mock", "CP"}
    /\ ProgInit
    /\ trace = [t \in Tasks |-> <<>>]
    /\ last = NoMsg
    /\ nStarts = MaxSessions - 1

SpecSingle == InitSingle /\ [][NextAll]_vars

\* The configuration handlers of EVBoxG3Simulator and EVBoxMock, with no session
InitConfig == prog \in {"G3", "Mock"} /\ ProgInit /\ ObsInit

NextConfig ==
    \/ \E r \in CfgRequests : G3_on_get_configuration(r)
    \/ \E k \in CfgKeys, v \in CfgValues : G3_on_change_configuration(k, v)
    \/ \E r \in CfgRequests : Mock_on_get_configuration(r)
    \/ \E k \in CfgKeys, v \in CfgValues : Mock_on_change_configuration(k, v)

SpecConfig == InitConfig /\ [][NextConfig]_vars

\* Concurrent start requests: a start request is taken whenever the code takes it,
\* so several start_session_flow tasks can be alive; no stop is requested.
NextG3Race ==
    \/ \E f \in G3Flows : G3_start_charging(f, GuiIdTag)
    \/ \E f \in G3Flows : G3_on_remote_start_transaction(f, GuiIdTag)
    \/ \E f \in G3Flows : G3_flow_guard(f)
    \/ \E f \in G3Flows : G3_flow_notify(f)
    \/ \E f \in G3Flows : G3_flow_startTx(f)
    \/ \E f \in G3Flows : G3_flow_startResp(f)
    \/ \E f \in G3Flows : G3_flow_rejDT(f)
    \/ \E f \in G3Flows : G3_flow_chgDT(f)
    \/ \E f \in G3Flows : G3_flow_meter(f)
    \/ \E f \in G3Flows, ok \in BOOLEAN : G3_flow_mvDT(f, ok)
    \/ \E f \in G3Flows : G3_flow_stopTx(f)
    \/ \E f \in G3Flows : G3_flow_stopResp(f)
    \/ \E f \in G3Flows : G3_flow_avDT(f)
    \/ \E f \in G3Flows : G3_flow_return(f)

SpecG3Race == InitG3 /\ [][NextG3Race]_vars

\* EVBoxG3Simulator when every session is started by RemoteStartTransaction
NextG3Remote ==
    \/ \E f \in G3Flows : G3_on_remote_start_transaction(f, GuiIdTag)
    \/ \E f \in G3Flows : G3_flow_guard(f)
    \/ \E f \in G3Flows : G3_flow_notify(f)
    \/ \E f \in G3Flows : G3_flow_startTx(f)
    \/ \E f \in G3Flows : G3_flow_startResp(f)
    \/ \E f \in G3Flows : G3_flow_rejDT(f)
    \/ \E f \in G3Flows : G3_flow_chgDT(f)
    \/ \E f \in G3Flows : G3_flow_meter(f)
    \/ \E f \in G3Flows, ok \in BOOLEAN : G3_flow_mvDT(f, ok)
    \/ \E f \in G3Flows : G3_flow_stopTx(f)
    \/ \E f \in G3Flows : G3_flow_stopResp(f)
    \/ \E f \in G3Flows : G3_flow_avDT(f)
    \/ \E f \in G3Flows : G3_flow_return(f)

SpecG3Remote == InitG3 /\ [][NextG3Remote]_vars

\* One remotely started session of each program, with DataTransfer calls of the CSMS
\* arriving at any moment
NextData ==
    \/ NextG3Remote
    \/ \E f \in MockFlows : Mock_on_remote_start_transaction(f)
    \/ \E f \in MockFlows : Mock_flow_begin(f)
    \/ \E f \in MockFlows : Mock_flow_authResp(f)
    \/ \E f \in MockFlows : Mock_flow_startTx(f)
    \/ \E f \in MockFlows : Mock_flow_startResp(f)
    \/ \E f \in MockFlows : Mock_flow_charging(f)
    \/ \E f \in MockFlows : Mock_flow_meter(f)
    \/ \E f \in MockFlows, ok \in BOOLEAN : Mock_flow_mvResp(f, ok)
    \/ \E f \in MockFlows : Mock_flow_stopTx(f)
    \/ \E f \in MockFlows : Mock_flow_stopResp(f)
    \/ \E f \in MockFlows : Mock_flow_end(f)
    \/ \E f \in MockFlows : Mock_flow_return(f)
    \/ \E f \in CPFlows : CP_on_remote_start_transaction(f)
    \/ \E f \in CPFlows : Rfid_flow_begin(f)
    \/ \E f \in CPFlows : Rfid_flow_authResp(f)
    \/ \E f \in CPFlows : Rfid_flow_raise(f)
    \/ \E f \in CPFlows : CP_flow_prepResp(f)
    \/ \E f \in CPFlows : CP_flow_startTx(f)
    \/ \E f \in CPFlows : CP_flow_startResp(f)
    \/ \E f \in CPFlows : CP_flow_charging(f)
    \/ \E f \in CPFlows : CP_flow_meter(f)
    \/ \E f \in CPFlows : CP_flow_mvResp(f)
    \/ \E f \in CPFlows : CP_flow_stopResp(f)
    \/ \E f \in CPFlows : CP_flow_end(f)
    \/ \E f \in CPFlows : CP_flow_return(f)
    \/ \E v \in DtVendors, m \in DtMessageIds, d \in DtData : G3_on_data_transfer(v, m, d)
    \/ \E v \in DtVendors, m \in DtMessageIds, d \in DtData : Mock_on_data_transfer(v, m, d)
    \/ \E v \in DtVendors, m \in DtMessageIds, d \in DtData : Rfid_on_data_transfer(v, m, d)

InitData ==
    /\ prog \in {"G3", "Mock", "RFID"}
    /\ ProgInit
    /\ trace = [t \in Tasks |-> <<>>]
    /\ last = NoMsg
    /\ nStarts = MaxSessions - 1

SpecData == InitData /\ [][NextData]_vars

\* EVBoxG3Simulator through one session, with the stop button and RemoteStopTransaction
InitG3Stop ==
    /\ prog = "G3"
    /\ ProgInit
    /\ trace = [t \in Tasks |-> <<>>]
    /\ last = NoMsg
    /\ nStarts = MaxSessions - 1

SpecG3Stop == InitG3Stop /\ [][NextG3]_vars

\* EVBoxG3Simulator through one session started with any idTag, by the button or by
\* RemoteStartTransaction
NextG3Tags ==
    \/ \E text \in IdTags \cup {""} : G3_start_charging("f1", text)
    \/ \E id_tag \in IdTags : G3_on_remote_start_transaction("f1", id_tag)
    \/ NextG3

SpecG3Tags == InitG3Stop /\ [][NextG3Tags]_vars

\* build_evb_status_compact applied to every combination of its arguments
NextCompact ==
    \E c \in EvbConnectorIds, st \in EvbStatuses, led \in EvbLedColors, pl \in EvbPlugged,
       e \in EvbRegisters, tx \in EvbTxIds, now \in EvbTimestamps :
        G3_send_evb_datatransfer(c, st, led, pl, e, tx, now)

SpecCompact == InitG3 /\ [][NextCompact]_vars

----------------------------------------------------------------------------
(* Claims *)

\* a start_session_flow task that has passed its guard and has not finished
G3FlowActive(f) == g3flow[f].pc \notin {"idle", "start", "done"}

\* no session flow and no stop path is in progress
G3Quiet ==
    /\ \A f \in G3Flows : g3flow[f].pc = "idle"
    /\ \A t \in G3StopTasks : g3stop[t].pc = "idle"

\* whether request tag is in trace tr
Has(tr, tag) == \E i \in DOMAIN tr : tr[i] = tag

\* C1: at most one session flow is active at a time; a start request that arrives
\* while another flow has passed its guard and has not finished is a no-op.
C1_AtMostOneFlowActive ==
    Cardinality({f \in G3Flows : G3FlowActive(f)}) <= 1

\* C2: a flow sends StatusNotification(SuspendedEVSE/Charging) or MeterValues, and
\* sets charging, only if its own StartTransaction returned Accepted with a
\* transactionId > 0; a failed call is a rejected start even when an earlier
\* session's transaction id is still stored.
C2_ChargingOnlyIfAccepted ==
    \A f \in G3Flows :
        /\ last.task = f
        /\ \/ last.type = "MeterValues"
           \/ last.type = "StatusNotification" /\ last.arg \in {"SuspendedEVSE", "Charging"}
        => g3flow[f].res = "accepted"

\* C4: the RemoteStopTransaction handler never replies Accepted while the session
\* then continues into Charging: an Accepted reply means the stop path has run.
C4_AcceptedMeansStopped ==
    G3RemoteStopReply = "Accepted" =>
        /\ trace["rs"] # <<>>
        /\ \A f \in G3Flows : g3flow[f].pc \notin {"susp", "suspDT", "chg", "chgDT"}

\* the key argument of a GetConfiguration for every key
AllKeys == [given |-> FALSE, keys |-> <<>>]

\* whether a GetConfiguration response lists key, and the value it lists
CfgReports(entries, key) == \E i \in DOMAIN entries : entries[i].key = key
CfgValueOf(entries, key) == entries[CHOOSE i \in DOMAIN entries : entries[i].key = key].value

\* what GetConfiguration reports now for every key
ReportedConfiguration ==
    IF prog = "G3" THEN G3GetConfiguration(g3cfg, AllKeys).configuration_key
    ELSE MockGetConfiguration(mock, AllKeys).configuration_key

C5_MismatchIsRejected ==
    [][\A id \in ServerTxIds :
          /\ G3_on_remote_stop_transaction(id) /\ g3.tx_id # Some(id)
                => /\ G3RemoteStopReply' = "Rejected"
                   /\ UNCHANGED <<g3, g3flow, trace, last>>
          /\ Mock_on_remote_stop_transaction(id) /\ mock.transaction_id # Some(id)
                => /\ MockRemoteStopStatus(mock.charging, mock.transaction_id, id) = "Rejected"
                   /\ UNCHANGED <<mock, mflow, mtask, trace, last>>]_vars

\* C5 happens: EVBoxG3Simulator has rejected a RemoteStopTransaction while a
\* transaction is charging in its metering loop
C5_RejectedWhileCharging ==
    /\ G3RemoteStopReply = "Rejected"
    /\ g3.charging /\ IsInt(g3.tx_id)
    /\ \E f \in G3Flows : g3flow[f].pc = "mSleep"

\* C6: in EVBoxG3Simulator every stop of an active session emits exactly
\* StopTransaction, StatusNotification(Finishing), vendor telemetry,
\* StatusNotification(Available), vendor telemetry.
C6_StopSequence ==
    \A t \in G3StopTasks :
        g3stop[t].pc = "done" /\ trace[t] # <<>> =>
            trace[t] = <<"StopTransaction(" \o G3StopReason(t) \o ")",
                         "StatusNotification(Finishing)", "DataTransfer(Finishing)",
                         "StatusNotification(Available)", "DataTransfer(Available)">>

\* C7: whenever the charge point is Idle (charging false, no session flow and no
\* stop path in progress) the stored transaction id is None.
C7_IdleHasNoTxId ==
    ~g3.charging /\ G3Quiet => g3.tx_id = None

\* C8: every MeterValues carries the positive transactionId returned by the accepted
\* StartTransaction of its session, and an energy value above that meterStart.
C8_MeterValuesCarrySessionTx ==
    \A f \in G3Flows :
        last.task = f /\ last.type = "MeterValues" =>
            /\ g3flow[f].tx > 0
            /\ last.tx = Some(g3flow[f].tx)
            /\ last.val > g3flow[f].meterStart

\* C9: once the transaction has been stopped externally or connected has become
\* false, the metering loop exits at its next wake-up without another MeterValues.
C9_NoMeterValuesAfterStop ==
    [][\A f \in G3Flows :
          g3flow[f].pc = "mSleep" /\ (~g3.charging \/ ~g3.connected)
              => ~(g3flow'[f].pc = "mvDT" /\ last'.task = f /\ last'.type = "MeterValues")]_vars

\* the first requests of a flow that sends no Authorize
PreparingFirst(tr) ==
    /\ ~Has(tr, "Authorize")
    /\ tr # <<>> => tr[1] = "StatusNotification(Preparing)"

C11_StopNotPipelined ==
    [][/\ Mock_stop_task("mAvail") => mtask["mStop"] = "idle"
       /\ \A f \in MockFlows : Mock_flow_meter(f) => mtask["mStop"] # "stopResp"
       /\ CP_stop_status => cptask["cStop"] = "idle"
       /\ \A t \in G3StopTasks :
              G3_stop_notify(t) /\ g3stop[t].pc = "avSt" =>
                  Has(trace[t], "StopTransaction(Local)")
                      \/ Has(trace[t], "StopTransaction(Remote)")]_vars

\* C12: when the Authorize response is not Accepted the session flow returns
\* normally: no exception leaves its coroutine, it sends no further request, and it
\* leaves the charging flag, the transaction id and every other field as they were.
C12_RejectedAuthorizeEndsFlow ==
    [][/\ \A f \in MockFlows :
              Mock_flow_authResp(f) /\ mflow'[f].auth = "rejected"
                  => /\ mflow'[f].pc = "done"
                     /\ ~mock.charging
                     /\ UNCHANGED <<mock, trace, last>>
       /\ \A f \in CPFlows :
              Rfid_flow_authResp(f) /\ cpflow'[f].auth = "rejected"
                  => /\ cpflow'[f].pc = "done"
                     /\ ~cp.charging
                     /\ UNCHANGED <<cp, trace, last>>]_vars

\* C13: a charge point whose BootNotification was rejected or failed has connected
\* false and no heartbeat task; it stays so whatever the reconnect monitor does.
C13_NoHeartbeatWithoutBoot ==
    gui.boot = "refused" =>
        /\ prog = "G3" => ~g3.connected /\ ~g3hb
        /\ prog = "Mock" => ~mock.connected /\ mhb = 0

\* the interval C14 asks for: the server's when it is a positive integer, 900 when it
\* is absent, zero or does not parse as an integer
C14Interval(interval) ==
    IF interval.kind = "int" /\ interval.n > 0 THEN interval.n
    ELSE IF interval.kind = "str" /\ ParseInt(interval.s) # None
                                  /\ Val(ParseInt(interval.s)) > 0
    THEN Val(ParseInt(interval.s))
    ELSE DefaultHeartbeatInterval

\* C14: an accepted BootNotification leaves heartbeat_interval at the server's
\* interval when that is a positive integer and at 900 when it is absent, zero or
\* not parsable as an integer, so that a heartbeat loop never sleeps on a value that
\* is not an integer.
C14_IntervalIsInteger ==
    /\ [](mhb > 0 => mock.heartbeat_interval.kind = "int")
    /\ [][\A resp \in BootResponses :
              BootEnd(resp) = "accepted" =>
                  /\ G3_start(resp) =>
                         g3'.heartbeat_interval = C14Interval(resp.interval)
                  /\ Mock_start(resp) =>
                         mock'.heartbeat_interval = PyInt(C14Interval(resp.interval))]_vars

\* C15: a Heartbeat call that fails clears connected and ends the heartbeat task that
\* made it.  The charge point sends no Heartbeat again before resume_connection has
\* run: EVBoxG3Simulator's task is the only one it ever has and lives only while
\* connected, and EVBoxMock, whose tasks call Heartbeat only when connected is set,
\* has connected set again by nothing but resume_connection (a new charge point
\* starts with its own boot handshake).
C15_FailedHeartbeatEndsTask ==
    /\ [](g3hb => g3.connected)
    /\ [][/\ G3_heartbeat(FALSE) => ~g3'.connected /\ ~g3hb'
          /\ ~g3hb /\ g3hb' => gui.conn = "boot" /\ gui'.boot = "accepted"
          /\ Mock_heartbeat(FALSE) /\ mock.connected =>
                 ~mock'.connected /\ mhb' = mhb - 1
          /\ ~mock.connected /\ mock'.connected =>
                 \/ Mock_monitor_reconnect(TRUE)
                 \/ Mock_async_connect_to_server]_vars

\* C15 happens: after an accepted boot the Heartbeat call of EVBoxG3Simulator has
\* failed
C15_HeartbeatFailed ==
    prog = "G3" /\ gui.boot = "accepted" /\ ~g3.connected /\ ~g3hb

\* C16: at most one periodic_heartbeat loop of EVBoxMock is alive at any time, also
\* after resume_connection.
C16_OneHeartbeatLoop == mhb <= 1

\* number of periodic_heartbeat tasks of CP_Simulator alive
CpHbAlive(hb) == Cardinality({h \in HbTasks : hb[h] # "dead"})

\* C17: resume_connection starts no boot handshake and sends nothing; it binds the
\* charge point to the new connection, sets connected, creates one heartbeat task,
\* and leaves the transaction id, charging, the meter counters, the heartbeat
\* interval, the authorization flag and every task of the session as they were.
C17_ResumeKeepsSession ==
    [][/\ Mock_monitor_reconnect(TRUE) /\ gui.cp =>
              /\ mock' = [mock EXCEPT !.connected = TRUE]
              /\ mhb' = mhb + 1
              /\ gui' = [gui EXCEPT !.mon = "sleep", !.websocket = "mon",
                                    !.connection = "mon"]
              /\ UNCHANGED <<mflow, mtask, last, trace>>
       /\ Rfid_monitor_reconnect(TRUE) /\ gui.cp =>
              /\ cp' = [cp EXCEPT !.connected = TRUE]
              /\ CpHbAlive(cphb') = CpHbAlive(cphb) + 1
              /\ \A h \in HbTasks : cphb[h] # "dead" => cphb'[h] = cphb[h]
              /\ gui' = [gui EXCEPT !.mon = "sleep", !.websocket = "mon",
                                    !.connection = "mon"]
              /\ UNCHANGED <<cpflow, cptask, last, trace>>]_vars

\* C17 happens: resume_connection has run on an EVBoxMock that is in a transaction
C17_ResumedInTransaction ==
    /\ prog = "Mock"
    /\ gui.connection = "mon"
    /\ mock.charging /\ IsInt(mock.transaction_id) /\ mock.connected

\* a heartbeat task of the charge point is alive
HbAlive ==
    IF prog = "G3" THEN g3hb
    ELSE IF prog = "Mock" THEN mhb > 0
    ELSE CpHbAlive(cphb) > 0

\* C18: when connected is false on an existing charge point and the central system
\* is reachable, the monitor brings the charge point back: connected is eventually
\* true with a heartbeat task running (unless the user disconnects it first).
C18_MonitorRestoresConnection ==
    (gui.cp /\ ~CpConnected) ~> (~gui.cp \/ (CpConnected /\ HbAlive))

\* C19: while connected is true on the GUI's charge point the monitor does not touch
\* the transport: it neither starts to close self.websocket nor replaces it.
C19_MonitorLeavesLiveTransport ==
    [][(gui.mon # gui'.mon /\ (gui'.mon = "closing" \/ gui'.websocket # gui.websocket))
           => ~(gui.cp /\ CpConnected)]_vars

\* C20: disconnect_from_server leaves connected false, and once it has run (the GUI
\* has dropped its charge point) the heartbeat loop calls no Heartbeat and the
\* metering loop sends no MeterValues any more.
C20_DisconnectStopsLoops ==
    [][/\ G3_disconnect_from_server => ~g3'.connected
       /\ Mock_disconnect_from_server => ~mock'.connected
       /\ (\E ok \in BOOLEAN : G3_heartbeat(ok)) => gui.cp
       /\ (\E ok \in BOOLEAN : Mock_heartbeat(ok)) /\ mock.connected => gui.cp
       /\ (\E f \in G3Flows : G3_flow_meter(f)) => gui.cp
       /\ (\E f \in MockFlows : Mock_flow_meter(f)) => gui.cp]_vars

\* C21: a MeterValues call that fails ends the metering loop of its flow (the flow
\* does not go back to sleep for another sample) and leaves connected false.
C21_FailedMeterValuesAborts ==
    [][/\ \A f \in G3Flows :
              G3_flow_mvDT(f, FALSE) => g3flow'[f].pc # "mSleep" /\ ~g3'.connected
       /\ \A f \in MockFlows :
              Mock_flow_mvResp(f, FALSE) => mflow'[f].pc # "mSleep" /\ ~mock'.connected]_vars

\* the StatusNotification requests a flow may have in its trace
StatusTags ==
    {"StatusNotification(Preparing)", "StatusNotification(SuspendedEVSE)",
     "StatusNotification(Charging)", "StatusNotification(Finishing)",
     "StatusNotification(Available)"}

\* the last connector status in a trace, "" when it holds none
LastStatus(tr) ==
    LET at == {j \in DOMAIN tr : tr[j] \in StatusTags} IN
        IF at = {} THEN ""
        ELSE tr[CHOOSE j \in at : \A k \in at : k <= j]

\* C22: a session flow that has reported Preparing ends with charging false and with
\* Available as the last connector status reported.  While the GUI holds the charge
\* point and no stop is requested, the flow is the only task that reports a status.
C22_FlowEndsAvailable ==
    gui.cp =>
        /\ \A f \in G3Flows :
               g3flow[f].pc = "done" /\ LastStatus(trace[f]) # "" =>
                   ~g3.charging /\ LastStatus(trace[f]) = "StatusNotification(Available)"
        /\ \A f \in MockFlows :
               mflow[f].pc = "done" /\ LastStatus(trace[f]) # "" =>
                   ~mock.charging /\ LastStatus(trace[f]) = "StatusNotification(Available)"

\* await asyncio.sleep(self.heartbeat_interval): the seconds the next round of the
\* heartbeat loop sleeps
G3HeartbeatSleep(g) == PyInt(g.heartbeat_interval)
MockHeartbeatSleep(m) == m.heartbeat_interval

\* a value that parses as a non-negative integer
NonNegativeInt(value) == ParseInt(value) # None /\ Val(ParseInt(value)) >= 0

\* C23: after ChangeConfiguration("HeartbeatInterval", v), v a non-negative integer
\* string, is answered Accepted, the rounds of the heartbeat loop that start afterwards
\* sleep v seconds: the interval the loop reads when a round starts is v.
C23_NextCycleSleepsWritten ==
    [][\A v \in CfgValues : NonNegativeInt(v) =>
           /\ G3_on_change_configuration("HeartbeatInterval", v)
                  /\ G3ChangeConfiguration(g3cfg, "HeartbeatInterval", v).status = "Accepted"
              => G3HeartbeatSleep(g3') = PyInt(Val(ParseInt(v)))
           /\ Mock_on_change_configuration("HeartbeatInterval", v)
                  /\ MockChangeConfiguration(mock, "HeartbeatInterval", v).status = "Accepted"
              => MockHeartbeatSleep(mock') = PyInt(Val(ParseInt(v)))]_vars

\* C24: a ChangeConfiguration answered Rejected leaves every stored configuration
\* value and every runtime setting (heartbeat interval, meter sample interval,
\* authorization flag) as they were, and the handler returns: its answer is a
\* ChangeConfiguration result.
C24_RejectedChangesNothing ==
    [][\A k \in CfgKeys, v \in CfgValues :
           /\ G3_on_change_configuration(k, v) /\ last'.arg = "Rejected"
                  => /\ last' = CfgReply("ChangeConfiguration", "Rejected")
                     /\ G3EnsureConfig(g3cfg') = G3EnsureConfig(g3cfg)
                     /\ g3' = g3
           /\ Mock_on_change_configuration(k, v) /\ last'.arg = "Rejected"
                  => /\ last' = CfgReply("ChangeConfiguration", "Rejected")
                     /\ mock' = mock]_vars

\* C24 happens: EVBoxG3Simulator has rejected a write after the CSMS changed
\* HeartbeatInterval and turned authorization off
C24_RejectedAfterWrites ==
    /\ prog = "G3"
    /\ last = CfgReply("ChangeConfiguration", "Rejected")
    /\ g3cfg.config["HeartbeatInterval"] = <<"6", "0">>
    /\ g3cfg.authorize_required = Some(FALSE)

\* the key argument of a GetConfiguration for one key
OneKey(k) == [given |-> TRUE, keys |-> <<k>>]

\* what a GetConfiguration of key k would answer in the next state
ReportedNext(k) ==
    IF prog = "G3" THEN G3GetConfiguration(g3cfg', OneKey(k)).configuration_key
    ELSE MockGetConfiguration(mock', OneKey(k)).configuration_key

NumericKeys == {"HeartbeatInterval", "MeterValuesSampleInterval"}

\* C25: for HeartbeatInterval and MeterValuesSampleInterval, ChangeConfiguration
\* answers Accepted exactly when the value parses as a non-negative integer, and
\* after Accepted a GetConfiguration of the key reports the integer written.
C25_AcceptedIffNonNegative ==
    [][\A k \in NumericKeys, v \in CfgValues :
           G3_on_change_configuration(k, v) \/ Mock_on_change_configuration(k, v) =>
               /\ last'.arg = "Accepted" <=> NonNegativeInt(v)
               /\ last'.arg = "Accepted" =>
                      /\ CfgReports(ReportedNext(k), k)
                      /\ ParseInt(CfgValueOf(ReportedNext(k), k)) = ParseInt(v)]_vars

\* the keys the ChangeConfiguration handler of the running program recognizes
RecognizedKeys ==
    IF prog = "G3" THEN DOMAIN G3EnsureConfig(g3cfg).config ELSE MockChangeKeys

\* C26: a ChangeConfiguration whose key the handler does not recognize is answered
\* NotSupported, leaves the store and the runtime settings as they were, and the key
\* is not added: a GetConfiguration of it afterwards reports no entry for it.
C26_UnknownKeyNotSupported ==
    [][\A k \in CfgKeys \ RecognizedKeys, v \in CfgValues :
           G3_on_change_configuration(k, v) \/ Mock_on_change_configuration(k, v) =>
               /\ last' = CfgReply("ChangeConfiguration", "NotSupported")
               /\ G3EnsureConfig(g3cfg') = G3EnsureConfig(g3cfg)
               /\ g3' = g3 /\ mock' = mock
               /\ ~CfgReports(ReportedNext(k), k)]_vars

\* C26 happens: an unrecognized key was answered NotSupported by an EVBoxG3Simulator
\* whose store the CSMS has changed before
C26_NotSupportedAfterWrites ==
    /\ prog = "G3"
    /\ last = CfgReply("ChangeConfiguration", "NotSupported")
    /\ g3cfg.config["MeterValuesSampleInterval"] = <<"1", "5">>

\* the keys the configuration interface lists as recognized, and values valid for them
ListedKeys ==
    {"AuthorizeRequired", "HeartbeatInterval", "MeterValueSampleInterval",
     "MeterValuesSampleInterval", "evb_SkipAuthorize", "evb_AutoStart"}
ListedNumericKeys == {"HeartbeatInterval", "MeterValueSampleInterval", "MeterValuesSampleInterval"}
ValidValue(k, v) ==
    IF k \in ListedNumericKeys THEN StrIsDigit(v) ELSE v \in {S_true, S_false, S_0, S_1}

\* C27: a ChangeConfiguration of a listed key with a valid value is never answered
\* NotSupported, and a GetConfiguration of the key reports an entry for it, never an
\* unknown key.
C27_ListedKeysHandled ==
    [][\A k \in ListedKeys, v \in CfgValues : ValidValue(k, v) =>
           (G3_on_change_configuration(k, v) \/ Mock_on_change_configuration(k, v) =>
                /\ last'.arg # "NotSupported"
                /\ CfgReports(ReportedNext(k), k))]_vars

\* the spellings of a boolean a CSMS writes to an alias of AuthorizeRequired
TruthySpellings == {S_1, S_true, S_yes, S_on}
FalsySpellings == {S_0, S_false, <<"n", "o">>, <<"o", "f", "f">>}
AliasKeys == {"evb_SkipAuthorize", "evb_AutoStart"}

\* C28: a write of a truthy spelling ("1", "true", "yes", "on") to an alias the
\* handler recognizes (evb_SkipAuthorize, evb_AutoStart) makes AuthorizeRequired
\* false, in the runtime flag and in what GetConfiguration reports, and a write of a
\* falsy spelling ("0", "false", "no", "off") makes it true.
C28_AliasSpellings ==
    [][\A k \in AliasKeys \cap RecognizedKeys, v \in TruthySpellings \cup FalsySpellings :
           G3_on_change_configuration(k, v) \/ Mock_on_change_configuration(k, v) =>
               /\ CfgValueOf(ReportedNext("AuthorizeRequired"), "AuthorizeRequired")
                      = BoolStr(v \in FalsySpellings)
               /\ prog = "G3" => g3cfg'.authorize_required = Some(v \in FalsySpellings)
               /\ prog = "Mock" => mock'.authorize_required = (v \in FalsySpellings)]_vars

\* the store GetConfiguration reads, and the response to request r, in this state
CfgStoreNow == IF prog = "G3" THEN G3EnsureConfig(g3cfg).config ELSE MockConfigStore(mock)
CfgResponseNow(r) ==
    IF prog = "G3" THEN G3GetConfiguration(g3cfg, r) ELSE MockGetConfiguration(mock, r)
InSeq(seq, x) == \E i \in DOMAIN seq : seq[i] = x

\* C29: GetConfiguration answers every requested key in exactly one of the two
\* results: in the entries, with its stored value, if the store holds it, and in
\* unknownKey otherwise; with no key list it answers every stored entry and no unknown
\* key; and it leaves the stored values and the runtime settings as they were.
C29_GetConfigurationPartitions ==
    [][\A r \in CfgRequests :
           G3_on_get_configuration(r) \/ Mock_on_get_configuration(r) =>
               LET resp == CfgResponseNow(r) IN
                   /\ \A i \in DOMAIN r.keys :
                          IF r.keys[i] \in DOMAIN CfgStoreNow
                          THEN /\ CfgReports(resp.configuration_key, r.keys[i])
                               /\ CfgValueOf(resp.configuration_key, r.keys[i])
                                      = CfgStoreNow[r.keys[i]]
                               /\ ~InSeq(resp.unknown_key, r.keys[i])
                          ELSE /\ ~CfgReports(resp.configuration_key, r.keys[i])
                               /\ InSeq(resp.unknown_key, r.keys[i])
                   /\ ~r.given =>
                          /\ \A k \in DOMAIN CfgStoreNow :
                                 /\ CfgReports(resp.configuration_key, k)
                                 /\ CfgValueOf(resp.configuration_key, k) = CfgStoreNow[k]
                          /\ resp.unknown_key = None
                   /\ G3EnsureConfig(g3cfg') = G3EnsureConfig(g3cfg)
                   /\ g3' = g3 /\ mock' = mock]_vars

\* C29 happens: EVBoxMock has answered a GetConfiguration after the CSMS changed its
\* heartbeat interval and turned authorization off
C29_ReadAfterWrites ==
    /\ prog = "Mock"
    /\ last = CfgReply("GetConfiguration", "")
    /\ mock.heartbeat_interval = PyInt(60)
    /\ ~mock.authorize_required

\* C30: on_remote_start_transaction creates the flow task and answers Accepted
\* whatever the state; when a session is already active (another flow has passed its
\* guard and has not finished) as the spawned flow starts to run, the spawned flow
\* sends no protocol message: it ends at its guard.
C30_SpawnedFlowIsNoOp ==
    [][\A f \in G3Flows :
           G3_flow_guard(f) /\ (\E e \in G3Flows \ {f} : G3FlowActive(e))
               => g3flow'[f].pc = "done"]_vars

\* C31: every inbound DataTransfer, whatever its vendor id and whether its message id
\* is known, unknown or absent, is answered with status Accepted and leaves the
\* session, the transaction and the configuration as they were.
C31_DataTransferAccepted ==
    [][\A v \in DtVendors, m \in DtMessageIds, d \in DtData :
           \/ G3_on_data_transfer(v, m, d)
           \/ Mock_on_data_transfer(v, m, d)
           \/ Rfid_on_data_transfer(v, m, d)
           => /\ last' = DtReply("Accepted")
              /\ UNCHANGED <<g3vars, g3cfg, mockvars, cpvars, gui>>]_vars

\* the top-level fields of a compact status string: split at the commas outside
\* braces, each brace group kept whole
SplitTop(str) ==
    LET depth(i) == Cardinality({j \in 1..i : str[j] = "{"})
                        - Cardinality({j \in 1..i : str[j] = "}"})
        commas == {i \in 1..Len(str) : str[i] = "," /\ depth(i) = 0}
        n == Cardinality(commas) + 1
        cut(k) == CHOOSE i \in commas : Cardinality({j \in commas : j < i}) = k - 1
    IN  [k \in 1..n |->
            SubSeq(str, IF k = 1 THEN 1 ELSE cut(k - 1) + 1,
                        IF k = n THEN Len(str) ELSE cut(k) - 1)]

\* a vendor status notification has been built
EvbBuilt == last.type = "evbStatusNotification"

IsGroup(field) == Len(field) >= 2 /\ field[1] = "{" /\ field[Len(field)] = "}"

\* C32: build_evb_status_compact returns a comma-joined sequence of exactly 24
\* top-level fields (each brace group one field): seven leading fields, three groups,
\* three numerics, the timestamp, the transaction id, one numeric, the 9-tuple group,
\* six trailing numerics and the firmware poll interval.
C32_TwentyFourFields ==
    EvbBuilt =>
        LET fields == SplitTop(last.data) IN
            /\ Len(fields) = 24
            /\ \A i \in {8, 9, 10, 17} : IsGroup(fields[i])
            /\ \A i \in {11, 12, 13, 15, 16} \cup (18..24) : StrIsDigit(fields[i])
            /\ fields[14] \in EvbTimestamps

\* C33: in the compact status string the vehiclePresent field (field 5) is 1 exactly
\* when the status argument is "Charging" or "SuspendedEVSE" and 0 for every other
\* status, whatever the plugged argument.
C33_VehiclePresentFromStatus ==
    EvbBuilt =>
        SplitTop(last.data)[5] =
            IF last.status \in {T_Charging, T_SuspendedEVSE} THEN S_1 ELSE S_0

\* C33 happens: a string was built for status Charging with plugged 0
C33_ChargingUnplugged ==
    EvbBuilt /\ last.status = T_Charging /\ last.plugged = 0

\* the first element of a brace group
GroupFirst(field) ==
    LET comma == CHOOSE i \in 1..Len(field) :
                     field[i] = "," /\ \A j \in 1..(i - 1) : field[j] # ","
    IN  SubSeq(field, 2, comma - 1)

\* C34: decoding the string of build_evb_status_compact by position recovers the
\* connectorId at field 1, the status at field 2, the ledColor at field 6, the
\* plugged flag at field 7, the registerWh as first element of the group at field 9
\* and the transactionId (0 when None) at field 15, for every combination of a
\* connector id, a status and a colour the callers pass, a plugged flag, a register
\* value and a transaction id.
C34_RoundTrip ==
    EvbBuilt =>
        LET fields == SplitTop(last.data) IN
            /\ ParseInt(fields[1]) = Some(last.connector_id)
            /\ fields[2] = last.status
            /\ fields[6] = last.led_color
            /\ ParseInt(fields[7]) = Some(last.plugged)
            /\ ParseInt(GroupFirst(fields[9])) = Some(last.energy_register_wh)
            /\ ParseInt(fields[15]) = Some(IF last.tx_id = None THEN 0 ELSE Val(last.tx_id))

\* C34 happens: a string was built with no transaction id and the initial register
C34_BuiltWithoutTransaction ==
    /\ EvbBuilt /\ last.tx_id = None
    /\ last.energy_register_wh = G3InitialEnergyWh /\ last.connector_id = 2

\* the StopTransaction requests in trace tr, whatever their reason
StopTags == {"StopTransaction(Local)", "StopTransaction(Remote)"}
CountStops(tr) == Cardinality({i \in DOMAIN tr : tr[i] \in StopTags})

\* the StopTransaction requests sent by the tasks of EVBoxG3Simulator that are running
G3StopsSent ==
    CountStops(trace["f1"]) + CountStops(trace["f2"])
        + CountStops(trace["btn"]) + CountStops(trace["rs"])

\* C35: for one accepted StartTransaction at most one StopTransaction is sent, under
\* every interleaving of the natural end of the metering loop, the stop button and
\* RemoteStopTransaction: through one session the running tasks have sent at most one.
C35_OneStopPerStart == G3StopsSent <= 1

\* C36: every StopTransaction of EVBoxG3Simulator carries the transaction id that the
\* StartTransaction of the session it ends returned (never None) and the idTag that
\* StartTransaction was sent with, also when RemoteStartTransaction gave an idTag other
\* than the one of the GUI.
C36_StopCarriesStartIds ==
    [][last'.type = "StopTransaction" /\ trace' # trace =>
           \A f \in G3Flows : G3FlowActive(f) =>
               /\ last'.tx = Some(g3flow[f].tx)
               /\ G3StopIdTag = G3StartIdTag(f)]_vars

\* the states a session's own task reports while it charges
ChargingTags == {"DataTransfer(Charging)", "StatusNotification(Charging)"}

\* C37: once stop_session has sent StatusNotification(Available) for a session, the
\* flow of that session sends neither vendor status telemetry with state Charging nor
\* StatusNotification(Charging).
C37_NothingAfterAvailable ==
    [][\A f \in G3Flows :
           last'.task = f /\ trace' # trace /\ Tag(last') \in ChargingTags =>
               \A t \in G3StopTasks : ~Has(trace[t], "StatusNotification(Available)")]_vars

\* C38: while `connected` is true, the round that follows each sleep of a heartbeat
\* loop sends a Heartbeat, whether or not a charging session is active.
C38_HeartbeatAfterEachSleep ==
    /\ \A h \in HbTasks :
           prog \in CPProgs /\ cphb[h] = "sleep" /\ cp.connected =>
               ENABLED (CP_heartbeat_wake(h) /\ last'.type = "Heartbeat" /\ cphb'[h] = "resp")
    /\ prog = "G3" /\ g3hb /\ g3.connected => ENABLED G3_heartbeat(TRUE)

\* C39: the local energy counter of a charge point never decreases, over sessions,
\* stops and reconnects, and the meterStop of a flow's StopTransaction is at least the
\* meterStart of its StartTransaction.
C39_CounterNeverDecreases ==
    [][/\ prog = "G3" => g3'.energy_wh_counter >= g3.energy_wh_counter
       /\ prog = "Mock" => mock'.meter_wh_counter >= mock.meter_wh_counter
       /\ \A f \in G3Flows :
              prog = "G3" /\ last'.task = f /\ last'.type = "StopTransaction"
                  /\ trace' # trace => last'.val >= g3flow[f].meterStart]_vars

====
